---- MODULE Spec2Model ----
(***************************************************************************)
(* A model of src/src/proxy.js of opencode-to-openai: the request          *)
(* serializer (processQueue / lock), the backend supervisor                *)
(* (ensureBackend) and the streaming branch of the chat-completions        *)
(* handler (collectFromEvents, sendDelta, the polling fallback).           *)
(*                                                                         *)
(* Time is counted in ticks of 100 ms, so the 100 ms cooldown of           *)
(* processQueue is 1 tick.  A timer fires in the tick it is due: Tick is  *)
(* disabled while a due timer is pending.                                  *)
(***************************************************************************)
EXTENDS Integers, Sequences, FiniteSets, TLC

\* ------------------------------------------------------------------ bounds
MaxTasks == 3
MaxTime == 4
MaxTimeout == 3
MaxSpawns == 2
NumSalts == 2
MaxDeltas == 2
MaxFed == 4
MaxChunkLen == 2
MaxTurns == 2
MaxKeyLen == 2
MaxMessages == 3
MaxPolls == 2
MaxToolTime == 5
MaxDirs == 2
MaxFiles == 2

\* ------------------------------------------------------- program constants
\* setTimeout(processQueue, 100): 100 ms = 1 tick
Cooldown == 1
\* const timeoutMs = timeout || 120000, scaled to ticks
DefaultTimeout == 2

\* const STARTUP_WAIT_ITERATIONS = 60; const STARTING_WAIT_ITERATIONS = 120
STARTUP_WAIT_ITERATIONS == 60
STARTING_WAIT_ITERATIONS == 120

\* const TOOL_IDS_CACHE_MS = 5 * 60 * 1000, in units of 150 s
TOOL_IDS_CACHE_MS == 2

None == -1

\* Text is a sequence of symbols: a positive number is the fragment with that
\* id (the n-th delta the backend produced), the markers are whole symbols.
\* '<function_calls>'
OpenMarker == -1
\* '</function_calls>'
CloseMarker == -2
\* `[Proxy Error] ${error.name}: ${...}`
ProxyErrorText == -3
\* the delta text of an event of another session
ForeignText == -4
\* a white-space character
Space == -5
\* '\n\n'
ParagraphBreak == -6
\* 'Bearer '
BearerPrefix == -7
\* a character of an API key that is not white space
KeyChar == 1
Slash == -8
Backslash == -9

VARIABLES
  \* --- request serializer (module-level state of proxy.js)
  queue,          \* const queue = []: records [task, timeout], in push order
  isProcessing,   \* let isProcessing = false
  settled,        \* the closure variable `settled` of each processQueue run
  deadline,       \* due time of the timeoutId timer of each task, None when not pending
  wakeups,        \* due times of the pending setTimeout(processQueue, 100) timers
  opState,        \* "none" | "queued" | "running" | "settled": the task() operation
  opOutcome,      \* "none" | "value" | "error": how task() settled
  promise,        \* the promise lock() returned: "none" | "pending" | "resolved" | "rejected" | "timeout"
  now,            \* the clock, in ticks
  nLocked,        \* number of lock() calls so far; task ids are arrival ranks
  \* --- history of the serializer
  invoked,        \* how many times task() was called, per task
  started,        \* the task ids in the order their operations were started
  arrivedAt,      \* tick of the lock() call
  startedAt,      \* tick the operation was started
  opSettledAt,    \* tick the operation settled
  firedAt         \* tick the deadline fired while the operation was unsettled

VARIABLES
  \* --- backend supervisor: backendState.get(OPENCODE_SERVER_URL) and its callers
  isStarting,     \* state.isStarting
  process,        \* state.process: 0 for null, else the id of the spawned process
  jailRoot,       \* state.jailRoot: 0 for null, else the salt of the directory
  dirs,           \* the salts whose jail directories exist on disk
  spawned,        \* number of spawn() calls so far; process ids are 1..spawned
  signalled,      \* the process ids kill() was called on
  healthy,        \* whether GET /health of the backend URL answers 200 right now
  pc,             \* where each ensureBackend() caller is
  iter,           \* the loop counter i of the caller's polling loop (0 outside a loop)
  via             \* the path the caller's current call took; "startTimeout" once its start loop ran out

bvars == <<isStarting, process, jailRoot, dirs, spawned, signalled, healthy, pc, iter, via>>

VARIABLES
  \* --- one chat request inside the serializer (the operation passed to lock())
  DISABLE_TOOLS,  \* config.DISABLE_TOOLS
  stream,         \* req.body.stream, read when the operation starts
  handler,        \* where the operation is: "received" (not started) | "ensuring" | "creating" | "toolIds" | "prompting" |
                  \* "awaitCollect" | "polling" | "cleanup" | "ended" (returned normally) |
                  \* "failed" (returned through the catch block)
  sessionId,      \* let sessionId = null; sessionRes.data?.id after client.session.create()
  collector,      \* collectFromEvents: "off" | "subscribing" | "running" | "settled"
  collected,      \* what safeCollect settled with: [tag, by, content, reasoning], tag "none" while pending
  content,        \* collectFromEvents: let content = ''
  reasoning,      \* collectFromEvents: let reasoning = ''
  receivedDelta,  \* collectFromEvents: let receivedDelta = false
  idleArmed,      \* collectFromEvents: idleTimer is set
  live,           \* the deltas the for-await loop received, in order: [isReasoning, text]
  inBlockContent,   \* inBlock of filterContentDelta
  inBlockReasoning, \* inBlock of filterReasoningDelta
  written,        \* the res.write() calls in order: [content, reasoning_content, finish_reason]
  status,         \* status of a JSON answer (res.status(..).json / res.json), 0 when none was sent
  resEnded,       \* the response was ended (res.end() or a JSON answer)
  polled,         \* what pollForAssistantResponse returned: [tag, content, reasoning, error]
  deleteCalls,    \* number of client.session.delete() calls made
  lockTimedOut,   \* the lock() promise was rejected by the serializer's deadline
  msgContent,     \* text parts of the session's assistant message at the backend
  msgReasoning,   \* reasoning parts of the session's assistant message at the backend
  msgStatus,      \* "none" before the prompt is submitted, then "generating" | "done" |
                  \* "error": info.finish / info.error of that message
  emitted         \* number of deltas the backend produced; fragment ids are 1..emitted

\* the request as configured and sent
reqVars == <<DISABLE_TOOLS, stream>>
\* the state of collectFromEvents
collVars == <<collector, collected, content, reasoning, receivedDelta, idleArmed, live>>
\* the response object and the two filter closures that write to it
resVars == <<inBlockContent, inBlockReasoning, written, status, resEnded>>
\* the assistant message at the backend
msgVars == <<msgContent, msgReasoning, msgStatus, emitted>>

svars == <<reqVars, handler, sessionId, collVars, resVars, polled, deleteCalls,
           lockTimedOut, msgVars>>

qvars == <<queue, isProcessing, settled, deadline, wakeups, opState, opOutcome,
           promise, now, nLocked, invoked, started, arrivedAt, startedAt,
           opSettledAt, firedAt>>

VARIABLES
  \* --- what is fed to the parts of the gateway that are checked on their own
  foreignFlip,    \* flips whenever the event feed delivers an event of another session
  filterIn,       \* the backend output fed to the filters so far
  filterDeltas,   \* in how many deltas it was fed
  filterInBlock,  \* inBlock of the filter closure
  filterOut,      \* the concatenation of what the filter closure returned
  stripOut,       \* stripFunctionCalls of the backend output
  promptMessages, \* the messages of the request body that was normalized
  prompt,         \* what buildPromptParts returned for them
  pollMessages,   \* the message list the polling loop was given
  pollResult,     \* what the scan of that list came to
  pollRounds,     \* how many iterations of the polling loop ended in sleep(intervalMs)
  pollOutcome,    \* "polling", then "returned" | "timeout" | "rejected"
  authRequest,    \* the request the auth middleware saw and the configured key
  authOutcome,    \* "none" before the middleware ran, then "next" or "401"
  platform        \* process.platform

filterVars == <<filterIn, filterDeltas, filterInBlock, filterOut, stripOut>>
promptVars == <<promptMessages, prompt>>
pollVars == <<pollMessages, pollResult, pollRounds, pollOutcome>>
authVars == <<authRequest, authOutcome>>

\* the inputs and results of the functions checked on their own
fvars == <<filterVars, promptVars, pollVars, authVars>>

pvars == <<foreignFlip, platform, fvars>>

VARIABLES
  \* --- the tool-id cache of createApp
  toolNow,              \* Date.now()
  cachedToolOverrides,  \* let cachedToolOverrides = null
  cachedToolAt,         \* let cachedToolAt = 0
  toolCall,             \* "idle", "fetching" while getToolOverrides awaits client.tool.ids(),
                        \* "returned" when it has returned to the operation
  toolReturn,           \* what the last call of getToolOverrides returned
  toolListed,           \* the ids of the last listing the backend gave
  promptTools           \* body.tools of the last prompt built: "map" or "absent"

toolVars == <<toolNow, cachedToolOverrides, cachedToolAt, toolCall, toolReturn, toolListed,
              promptTools>>

VARIABLES
  resolveInput,         \* what resolveOpencodePath was called with and what it found on disk
  opencodeBin           \* the executable handed to spawn

resolveVars == <<resolveInput, opencodeBin>>

VARIABLES
  body                  \* req.body.messages of the chat request as it was sent

validateVars == <<body>>

VARIABLES
  feedClosed            \* the for-await loop of collectFromEvents has been left

lateVars == <<feedClosed>>

evars == <<resolveVars, validateVars, lateVars>>

tvars == <<toolVars, evars>>

vars == <<qvars, bvars, svars, pvars, tvars>>

TaskIds == 1..MaxTasks
TimeoutChoices == {0, MaxTimeout}

\* const timeoutMs = timeout || 120000
TimeoutMs(timeout) == IF timeout = 0 THEN DefaultTimeout ELSE timeout

\* mutant: the busy flag is not consulted
ProcessQueueBlocked_NoFlag(q, busy) == q = <<>>

\* if (isProcessing || queue.length === 0) return;
ProcessQueueBlocked(q, busy) == busy \/ q = <<>>

\* mutant: queue.pop() instead of queue.shift()
Shift_Pop(q) == [entry |-> q[Len(q)], rest |-> SubSeq(q, 1, Len(q) - 1)]

\* mutant: queue[0] is read and left in the queue
Shift_Peek(q) == [entry |-> Head(q), rest |-> q]

\* queue.shift(): the entry taken and the queue left
Shift(q) == [entry |-> Head(q), rest |-> Tail(q)]

------------------------------------------------------------------------------
QInit ==
  /\ queue = <<>>
  /\ isProcessing = FALSE
  /\ settled = [t \in TaskIds |-> FALSE]
  /\ deadline = [t \in TaskIds |-> None]
  /\ wakeups = <<>>
  /\ opState = [t \in TaskIds |-> "none"]
  /\ opOutcome = [t \in TaskIds |-> "none"]
  /\ promise = [t \in TaskIds |-> "none"]
  /\ now = 0
  /\ nLocked = 0
  /\ invoked = [t \in TaskIds |-> 0]
  /\ started = <<>>
  /\ arrivedAt = [t \in TaskIds |-> None]
  /\ startedAt = [t \in TaskIds |-> None]
  /\ opSettledAt = [t \in TaskIds |-> None]
  /\ firedAt = [t \in TaskIds |-> None]

\* processQueue(), run on queue value q, flag busy and operation states ops
\* (the values the caller has just produced).  It sets queue, isProcessing,
\* settled, deadline, opState, invoked, started and startedAt.
ProcessQueue(q, busy, ops) ==
  IF ProcessQueueBlocked(q, busy)
  THEN /\ queue' = q
       /\ isProcessing' = busy
       /\ opState' = ops
       /\ UNCHANGED <<settled, deadline, invoked, started, startedAt>>
  ELSE LET e == Shift(q).entry
           t == e.task
       IN /\ isProcessing' = TRUE
          /\ queue' = Shift(q).rest
          /\ settled' = [settled EXCEPT ![t] = FALSE]
          /\ deadline' = [deadline EXCEPT ![t] = now + TimeoutMs(e.timeout)]
          \* Promise.resolve().then(() => task()): a microtask, before any timer or I/O
          /\ opState' = [ops EXCEPT ![t] = "running"]
          /\ invoked' = [invoked EXCEPT ![t] = @ + 1]
          /\ started' = Append(started, t)
          /\ startedAt' = [startedAt EXCEPT ![t] = now]

\* lock(task, timeout)
Lock(timeout) ==
  /\ UNCHANGED <<bvars, svars, pvars, tvars>>
  /\ nLocked < MaxTasks
  /\ LET t == nLocked + 1
     IN /\ nLocked' = t
        /\ promise' = [promise EXCEPT ![t] = "pending"]
        /\ arrivedAt' = [arrivedAt EXCEPT ![t] = now]
        /\ ProcessQueue(Append(queue, [task |-> t, timeout |-> timeout]),
                        isProcessing, [opState EXCEPT ![t] = "queued"])
  /\ UNCHANGED <<wakeups, opOutcome, now, opSettledAt, firedAt>>

\* mutant: the handlers do not test `settled`
SettleResult_Unguarded(t, o) == IF o = "value" THEN "resolved" ELSE "rejected"

\* The promise of lock() after task() settled with outcome o:
\* .then((result) => { if (settled) return; ... resolve(result) })
\* .catch((err)   => { if (settled) return; ... reject(err) })
SettleResult(t, o) ==
  IF settled[t] THEN promise[t]
  ELSE IF o = "value" THEN "resolved" ELSE "rejected"

\* task() settles (fulfils or throws); then the .then/.catch/.finally chain runs
OpSettle(t, o) ==
  /\ UNCHANGED <<bvars, svars, pvars, tvars>>
  /\ opState[t] = "running"
  /\ opState' = [opState EXCEPT ![t] = "settled"]
  /\ opOutcome' = [opOutcome EXCEPT ![t] = o]
  /\ opSettledAt' = [opSettledAt EXCEPT ![t] = now]
  /\ promise' = [promise EXCEPT ![t] = SettleResult(t, o)]
  /\ settled' = [settled EXCEPT ![t] = TRUE]
  \* clearTimeout(timeoutId): when already settled the timer has fired and is gone
  /\ deadline' = [deadline EXCEPT ![t] = None]
  \* .finally(() => { isProcessing = false; setTimeout(processQueue, 100); })
  /\ isProcessing' = FALSE
  /\ wakeups' = Append(wakeups, now + Cooldown)
  /\ UNCHANGED <<queue, now, nLocked, invoked, started, arrivedAt, startedAt, firedAt>>

\* the timeoutId callback
DeadlineFire(t) ==
  /\ UNCHANGED <<bvars, svars, pvars, tvars>>
  /\ deadline[t] # None
  /\ deadline[t] <= now
  /\ deadline' = [deadline EXCEPT ![t] = None]
  /\ IF settled[t]
     THEN UNCHANGED <<settled, promise, firedAt>>
     ELSE /\ settled' = [settled EXCEPT ![t] = TRUE]
          /\ promise' = [promise EXCEPT ![t] = "timeout"]
          /\ firedAt' = [firedAt EXCEPT ![t] = now]
  /\ UNCHANGED <<queue, isProcessing, wakeups, opState, opOutcome, now, nLocked,
                 invoked, started, arrivedAt, startedAt, opSettledAt>>

\* a setTimeout(processQueue, 100) timer fires
WakeUp ==
  /\ UNCHANGED <<bvars, svars, pvars, tvars>>
  /\ wakeups # <<>>
  /\ Head(wakeups) <= now
  /\ wakeups' = Tail(wakeups)
  /\ ProcessQueue(queue, isProcessing, opState)
  /\ UNCHANGED <<opOutcome, promise, now, nLocked, arrivedAt, opSettledAt, firedAt>>

TimerDue ==
  \/ \E t \in TaskIds : deadline[t] # None /\ deadline[t] <= now
  \/ wakeups # <<>> /\ Head(wakeups) <= now

Tick ==
  /\ UNCHANGED <<bvars, svars, pvars, tvars>>
  /\ now < MaxTime
  /\ ~TimerDue
  /\ now' = now + 1
  /\ UNCHANGED <<queue, isProcessing, settled, deadline, wakeups, opState, opOutcome,
                 promise, nLocked, invoked, started, arrivedAt, startedAt,
                 opSettledAt, firedAt>>

QNext ==
  \/ \E timeout \in TimeoutChoices : Lock(timeout)
  \/ \E t \in TaskIds : \E o \in {"value", "error"} : OpSettle(t, o)
  \/ \E t \in TaskIds : DeadlineFire(t)
  \/ WakeUp
  \/ Tick


------------------------------------------------------------------------------
\* Backend supervisor: ensureBackend(config) for one OPENCODE_SERVER_URL.
\* "warmup" is the call of the app.listen callback, which runs outside the
\* serializer; "request" is the call of the chat handler, of which the
\* serializer admits one at a time.  Each action is the code between two awaits.

Callers == {"warmup", "request"}
Salts == 1..NumSalts

\* backendState.set(stateKey, { isStarting: false, process: null, jailRoot: null })
BInit ==
  /\ isStarting = FALSE
  /\ process = 0
  /\ jailRoot = 0
  /\ dirs = {}
  /\ spawned = 0
  /\ signalled = {}
  /\ healthy = FALSE
  /\ pc = [c \in Callers |-> "idle"]
  /\ iter = [c \in Callers |-> 0]
  /\ via = [c \in Callers |-> "none"]

\* the backend (or whatever listens on the URL) comes up or goes down
HealthChange ==
  /\ UNCHANGED <<qvars, svars, pvars, tvars>>
  /\ healthy' = ~healthy
  /\ UNCHANGED <<isStarting, process, jailRoot, dirs, spawned, signalled, pc, iter, via>>

\* ensureBackend() is called: the code up to its first await
EnsureCall(c) ==
  /\ UNCHANGED <<qvars, svars, pvars, tvars>>
  /\ pc[c] = "idle"
  /\ IF isStarting
     THEN /\ pc' = [pc EXCEPT ![c] = "waiting"]
          /\ via' = [via EXCEPT ![c] = "waiter"]
     ELSE /\ pc' = [pc EXCEPT ![c] = "probe"]
          /\ via' = [via EXCEPT ![c] = "cheap"]
  /\ iter' = [iter EXCEPT ![c] = 0]
  /\ UNCHANGED <<isStarting, process, jailRoot, dirs, spawned, signalled, healthy>>

\* the chat handler's call has returned; the serializer admits the next request
NextRequest ==
  /\ UNCHANGED <<qvars, svars, pvars, tvars>>
  /\ pc["request"] \in {"resolved", "rejected"}
  /\ pc' = [pc EXCEPT !["request"] = "idle"]
  /\ via' = [via EXCEPT !["request"] = "none"]
  /\ UNCHANGED <<isStarting, process, jailRoot, dirs, spawned, signalled, healthy, iter>>

\* a loop that goes round for ever
LoopEnds_Never(i, limit) == FALSE

\* for (let i = 0; i < limit; i++): the iteration with this i is the last
LoopEnds(i, limit) == i + 1 = limit

\* one iteration of the waiter loop: sleep, then checkHealth
WaiterPoll(c) ==
  /\ UNCHANGED <<qvars, svars, pvars, tvars>>
  /\ pc[c] = "waiting"
  /\ iter[c] < STARTING_WAIT_ITERATIONS
  /\ IF healthy
     THEN /\ pc' = [pc EXCEPT ![c] = "resolved"]
          /\ iter' = [iter EXCEPT ![c] = 0]
     ELSE IF LoopEnds(iter[c], STARTING_WAIT_ITERATIONS)
          THEN \* throw new Error('Backend startup timeout')
               /\ pc' = [pc EXCEPT ![c] = "rejected"]
               /\ iter' = [iter EXCEPT ![c] = 0]
          ELSE /\ iter' = [iter EXCEPT ![c] = @ + 1]
               /\ UNCHANGED pc
  /\ UNCHANGED <<isStarting, process, jailRoot, dirs, spawned, signalled, healthy, via>>

\* mutant: the start sequence runs whatever the probe said
NeedsStart_Always(h) == TRUE

\* try { await checkHealth(url) } catch (err) { ...start... }
NeedsStart(h) == ~h

\* the probe of a caller that saw isStarting false has been answered.
\* fsOk: whether fs.mkdirSync / spawn went through without throwing.
\* the recorded process is left alone
KillExisting_Skip(recorded, killed) == killed

\* if (state.process) { try { state.process.kill(); } catch (e) { } }
KillExisting(recorded, killed) ==
  IF recorded # 0 THEN killed \cup {recorded} ELSE killed

ProbeDone(c, salt, fsOk) ==
  /\ UNCHANGED <<qvars, svars, pvars, tvars>>
  /\ pc[c] = "probe"
  /\ IF ~NeedsStart(healthy)
     THEN /\ pc' = [pc EXCEPT ![c] = "resolved"]
          /\ UNCHANGED <<isStarting, process, jailRoot, dirs, spawned, signalled, iter, via>>
     ELSE /\ spawned < MaxSpawns
          /\ isStarting' = TRUE
          /\ signalled' = KillExisting(process, signalled)
          \* fs.rmSync(state.jailRoot); state.jailRoot = path.join(tmpdir, 'opencode-proxy-jail', salt)
          /\ jailRoot' = salt
          /\ via' = [via EXCEPT ![c] = "starter"]
          /\ iter' = [iter EXCEPT ![c] = 0]
          /\ IF fsOk
             THEN \* fs.mkdirSync(workspace); state.process = spawn(...)
                  /\ dirs' = (dirs \ {jailRoot}) \cup {salt}
                  /\ spawned' = spawned + 1
                  /\ process' = spawned + 1
                  /\ pc' = [pc EXCEPT ![c] = "starting"]
             ELSE \* mkdirSync throws: the call rejects with isStarting still set
                  /\ dirs' = dirs \ {jailRoot}
                  /\ pc' = [pc EXCEPT ![c] = "rejected"]
                  /\ UNCHANGED <<spawned, process>>
  /\ UNCHANGED healthy

\* mutant: the missing-start check is dropped
StartLoopEnd_NoThrow(startedOk) == "resolved"

\* if (!started) throw new Error('Backend start timeout')
StartLoopEnd(startedOk) == IF startedOk THEN "resolved" ELSE "rejected"

\* the flag left set when the loop is over
IsStartingAfterLoop_Kept == TRUE

\* state.isStarting = false, once the loop is over
IsStartingAfterLoop == FALSE

\* one iteration of the starter loop: sleep, then checkHealth; the code after
\* the loop when it is the last one
StartPoll(c) ==
  /\ UNCHANGED <<qvars, svars, pvars, tvars>>
  /\ pc[c] = "starting"
  /\ iter[c] < STARTUP_WAIT_ITERATIONS
  /\ IF healthy
     THEN /\ isStarting' = IsStartingAfterLoop
          /\ pc' = [pc EXCEPT ![c] = StartLoopEnd(TRUE)]
          /\ iter' = [iter EXCEPT ![c] = 0]
          /\ UNCHANGED via
     ELSE IF LoopEnds(iter[c], STARTUP_WAIT_ITERATIONS)
          THEN /\ isStarting' = IsStartingAfterLoop
               /\ pc' = [pc EXCEPT ![c] = StartLoopEnd(FALSE)]
               /\ iter' = [iter EXCEPT ![c] = 0]
               /\ via' = [via EXCEPT ![c] = "startTimeout"]
          ELSE /\ iter' = [iter EXCEPT ![c] = @ + 1]
               /\ UNCHANGED <<isStarting, pc, via>>
  /\ UNCHANGED <<process, jailRoot, dirs, spawned, signalled, healthy>>

BNext ==
  \/ HealthChange
  \/ \E c \in Callers : EnsureCall(c)
  \/ NextRequest
  \/ \E c \in Callers : WaiterPoll(c)
  \/ \E c \in Callers : \E salt \in Salts : \E fsOk \in BOOLEAN : ProbeDone(c, salt, fsOk)
  \/ \E c \in Callers : StartPoll(c)

\* the gateway turns out to run on Windows: process.platform is fixed before
\* anything is started
RunsOnWindows ==
  /\ UNCHANGED <<qvars, bvars, svars, foreignFlip, fvars, tvars>>
  /\ platform = "linux"
  /\ spawned = 0
  /\ \A c \in Callers : pc[c] = "idle"
  /\ platform' = "win32"

\* killBackend() of the object startServer returned
KillBackend ==
  /\ UNCHANGED <<qvars, svars, pvars, tvars>>
  \* if (state && state.process) state.process.kill()
  /\ signalled' = IF process # 0 THEN signalled \cup {process} ELSE signalled
  \* if (state && state.jailRoot && process.platform !== 'win32') fs.rmSync(state.jailRoot)
  /\ dirs' = IF jailRoot # 0 /\ platform # "win32" THEN dirs \ {jailRoot} ELSE dirs
  /\ UNCHANGED <<isStarting, process, jailRoot, spawned, healthy, pc, iter, via>>

\* the server started by startServer: its warmup call of ensureBackend, and
\* killBackend called by the owner of the server
StopNext ==
  \/ RunsOnWindows
  \/ KillBackend
  \/ HealthChange
  \/ EnsureCall("warmup")
  \/ \E salt \in Salts : \E fsOk \in BOOLEAN : ProbeDone("warmup", salt, fsOk)
  \/ StartPoll("warmup")


------------------------------------------------------------------------------
\* The operation POST /v1/chat/completions passes to lock(), for one request
\* that passed validation: ensureBackend, session create, tool overrides, then
\* the stream branch or the non-stream branch, and the catch block.  An event
\* is delivered to the for-await loop of collectFromEvents when the backend
\* produces it, provided the subscription is running; the timers of
\* collectFromEvents fire nondeterministically while they are armed.

\* String.prototype.indexOf for a whole-symbol marker: 0 when absent
IndexOf(seq, sym) ==
  IF \E i \in 1..Len(seq) : seq[i] = sym
  THEN CHOOSE i \in 1..Len(seq) : seq[i] = sym /\ \A j \in 1..(i - 1) : seq[j] # sym
  ELSE 0

RECURSIVE FilterLoop(_, _, _)
\* the while (remaining.length) loop of the filter closure
FilterLoop(inBlock, remaining, output) ==
  IF remaining = <<>> THEN [out |-> output, inBlock |-> inBlock]
  ELSE IF inBlock
       THEN LET endIdx == IndexOf(remaining, CloseMarker)
            IN IF endIdx = 0
               THEN [out |-> output, inBlock |-> TRUE]
               ELSE FilterLoop(FALSE, SubSeq(remaining, endIdx + 1, Len(remaining)), output)
       ELSE LET startIdx == IndexOf(remaining, OpenMarker)
            IN IF startIdx = 0
               THEN [out |-> output \o remaining, inBlock |-> FALSE]
               ELSE FilterLoop(TRUE, SubSeq(remaining, startIdx + 1, Len(remaining)),
                               output \o SubSeq(remaining, 1, startIdx - 1))

\* a filter closure that starts every call outside a block
ToolCallFilter_Stateless(disable, inBlock, chunk) ==
  IF ~disable THEN [out |-> chunk, inBlock |-> inBlock]
  ELSE FilterLoop(FALSE, chunk, <<>>)

\* createToolCallFilter(): one call of the returned closure
ToolCallFilter(disable, inBlock, chunk) ==
  IF ~disable THEN [out |-> chunk, inBlock |-> inBlock]
  ELSE FilterLoop(inBlock, chunk, <<>>)

\* the chunk sendDelta builds: delta: {} with reasoning_content or content set,
\* finish_reason: null; an absent field is the empty text
DeltaChunk(isReasoning, filtered) ==
  [content           |-> IF isReasoning THEN <<>> ELSE filtered,
   reasoning_content |-> IF isReasoning THEN filtered ELSE <<>>,
   finish_reason     |-> "null"]

\* { id, choices: [{ index: 0, delta: {}, finish_reason: 'stop' }] }
FinishChunk == [content |-> <<>>, reasoning_content |-> <<>>, finish_reason |-> "stop"]

\* data: [DONE]
DoneSentinel == [content |-> <<>>, reasoning_content |-> <<>>, finish_reason |-> "[DONE]"]

\* sendDelta(delta, isReasoning) on response w with filter states fc, fr:
\* the response and the filter states afterwards
SendDelta(w, fc, fr, delta, isReasoning) ==
  IF delta = <<>> THEN [w |-> w, fc |-> fc, fr |-> fr]
  ELSE LET f == ToolCallFilter(DISABLE_TOOLS, IF isReasoning THEN fr ELSE fc, delta)
       IN [w  |-> IF f.out = <<>> THEN w ELSE Append(w, DeltaChunk(isReasoning, f.out)),
           fc |-> IF isReasoning THEN fc ELSE f.inBlock,
           fr |-> IF isReasoning THEN f.inBlock ELSE fr]

\* only the content is sent, the reasoning is dropped
SendBoth_ContentOnly(w, fc, fr, r, c) == SendDelta(w, fc, fr, c, FALSE)

\* if (reasoning) sendDelta(reasoning, true); if (content) sendDelta(content, false);
SendBoth(w, fc, fr, r, c) ==
  LET a == SendDelta(w, fc, fr, r, TRUE)
  IN SendDelta(a.w, a.fc, a.fr, c, FALSE)

\* if (collected && (collected.reasoning || collected.content)) { ...sendDelta... }
ResendCollected(w, fc, fr, col) == SendBoth(w, fc, fr, col.reasoning, col.content)

\* the [DONE] sentinel written before the finish chunk
Finish_DoneFirst(w) == w \o << DoneSentinel, FinishChunk >>

\* the finish chunk, the [DONE] sentinel
Finish(w) == w \o << FinishChunk, DoneSentinel >>

\* a delta put in front of the accumulator
Accumulate_Prepend(acc, text) == text \o acc

\* content += text / reasoning += text
Accumulate(acc, text) == acc \o text

NoCollected == [tag |-> "none", by |-> "none", content |-> <<>>, reasoning |-> <<>>]

NoPoll == [tag |-> "none", content |-> <<>>, reasoning |-> <<>>, error |-> FALSE]

\* an idle timer that rejects like the overall deadline
IdleResult_Timeout(rd, c, r) ==
  [tag |-> "error", by |-> "idle", content |-> <<>>, reasoning |-> <<>>]

\* the idle timer's callback: receivedDelta ? { content, reasoning } : { noData: true }
IdleResult(rd, c, r) ==
  IF rd THEN [tag |-> "ok", by |-> "idle", content |-> c, reasoning |-> r]
  ELSE [tag |-> "noData", by |-> "idle", content |-> <<>>, reasoning |-> <<>>]

\* res.headersSent
HeadersSent == written # <<>> \/ status # 0

\* the status the catch block answers with, for an error whose message does
\* ("timeout") or does not ("other") include 'Request timeout'
CatchStatus(kind) == IF kind = "timeout" THEN 504 ELSE 500

\* the session of this request and a session of an earlier request
ThisSession == "ses_request"

\* if (sessionId): null and undefined are falsy, an id is not
Truthy_Always(sid) == TRUE

Truthy(sid) == sid \notin {"null", "undefined"}

\* an exception of the given kind reaches the catch block of the operation:
\* the code of the catch block up to its await, with sessionId as the step
\* that threw leaves it
Throw(kind) ==
  /\ IF ~HeadersSent
     THEN /\ status' = CatchStatus(kind)
          /\ resEnded' = TRUE
     ELSE UNCHANGED <<status, resEnded>>
  /\ IF Truthy(sessionId')
     THEN /\ handler' = "cleanup"
          /\ deleteCalls' = deleteCalls + 1
     ELSE /\ handler' = "failed"
          /\ UNCHANGED deleteCalls
  /\ UNCHANGED <<inBlockContent, inBlockReasoning, written>>

\* the prompt was submitted: the backend may be producing the assistant message
Prompted == msgStatus # "none"

SInit ==
  /\ DISABLE_TOOLS \in BOOLEAN
  /\ stream = FALSE
  /\ handler = "received"
  /\ sessionId = "null"
  /\ collector = "off"
  /\ collected = NoCollected
  /\ content = <<>>
  /\ reasoning = <<>>
  /\ receivedDelta = FALSE
  /\ idleArmed = FALSE
  /\ live = <<>>
  /\ inBlockContent = FALSE
  /\ inBlockReasoning = FALSE
  /\ written = <<>>
  /\ status = 0
  /\ resEnded = FALSE
  /\ polled = NoPoll
  /\ deleteCalls = 0
  /\ lockTimedOut = FALSE
  /\ msgContent = <<>>
  /\ msgReasoning = <<>>
  /\ msgStatus = "none"
  /\ emitted = 0

\* the serializer starts the operation of a request with the given stream
\* flag that passes validation: the code up to await ensureBackend(config)
StartOperation(s) ==
  /\ UNCHANGED <<qvars, bvars, pvars, tvars>>
  /\ handler = "received"
  /\ stream' = s
  /\ handler' = "ensuring"
  /\ UNCHANGED <<DISABLE_TOOLS, sessionId, collVars, resVars, polled, deleteCalls,
                 lockTimedOut, msgVars>>

\* await ensureBackend(config) returns
EnsureOk ==
  /\ UNCHANGED <<qvars, bvars, pvars, tvars>>
  /\ handler = "ensuring"
  /\ handler' = "creating"
  /\ UNCHANGED <<reqVars, sessionId, collVars, resVars, polled, deleteCalls,
                 lockTimedOut, msgVars>>

\* await ensureBackend(config) throws ('Backend start timeout', a failed mkdir)
EnsureFail ==
  /\ UNCHANGED <<qvars, bvars, pvars, tvars>>
  /\ handler = "ensuring"
  /\ UNCHANGED <<sessionId, polled>>
  /\ Throw("other")
  /\ UNCHANGED <<reqVars, collVars, lockTimedOut, msgVars>>

\* await client.session.create() returns an id
CreateOk ==
  /\ UNCHANGED <<qvars, bvars, pvars, tvars>>
  /\ handler = "creating"
  /\ sessionId' = ThisSession
  /\ handler' = "toolIds"
  /\ UNCHANGED <<reqVars, collVars, resVars, polled, deleteCalls, lockTimedOut, msgVars>>

\* await client.session.create() throws and sessionId stays null, or it
\* returns without an id: sessionId = sessionRes.data?.id is undefined and
\* throw new Error('Failed to create OpenCode session')
CreateFail(noId) ==
  /\ UNCHANGED <<qvars, bvars, pvars, tvars>>
  /\ handler = "creating"
  /\ sessionId' = IF noId THEN "undefined" ELSE sessionId
  /\ UNCHANGED polled
  /\ Throw("other")
  /\ UNCHANGED <<reqVars, collVars, lockTimedOut, msgVars>>

\* await getToolOverrides() returns (it catches its own errors), then the code
\* up to await promptWithTimeout(...): in the stream branch res.setHeader, which
\* throws once headers were sent, and the call of collectFromEvents
ToolIdsDone ==
  /\ UNCHANGED <<qvars, bvars, pvars, tvars>>
  /\ handler = "toolIds"
  /\ IF stream /\ HeadersSent
     THEN /\ UNCHANGED <<sessionId, polled>>
          /\ Throw("other")
          /\ UNCHANGED collVars
          /\ UNCHANGED msgStatus
     ELSE /\ handler' = "prompting"
          /\ collector' = IF stream THEN "subscribing" ELSE "off"
          /\ msgStatus' = "generating"
          /\ UNCHANGED <<sessionId, collected, content, reasoning, receivedDelta,
                         idleArmed, live, resVars, polled, deleteCalls>>
  /\ UNCHANGED <<reqVars, lockTimedOut, msgContent, msgReasoning, emitted>>

\* await client.event.subscribe(...) resolved: the overall deadline and the
\* first-delta timer are armed, the loop starts
SubscribeOk ==
  /\ UNCHANGED <<qvars, bvars, pvars, tvars>>
  /\ collector = "subscribing"
  /\ collector' = "running"
  /\ UNCHANGED <<reqVars, handler, sessionId, collected, content, reasoning,
                 receivedDelta, idleArmed, live, resVars, polled, deleteCalls,
                 lockTimedOut, msgVars>>

\* collectFromEvents rejects and safeCollect yields { __error: err }: subscribe
\* failed ("subscribe"), the overall deadline fired ("deadline": reject(new
\* Error('Request timeout ...'))), or the event stream threw ("stream")
CollectError(cause) ==
  /\ UNCHANGED <<qvars, bvars, pvars, tvars>>
  /\ \/ cause = "subscribe" /\ collector = "subscribing"
     \/ cause \in {"deadline", "stream"} /\ collector = "running"
  /\ collector' = "settled"
  /\ idleArmed' = FALSE
  /\ collected' = [tag |-> "error", by |-> cause, content |-> <<>>, reasoning |-> <<>>]
  /\ UNCHANGED <<reqVars, handler, sessionId, content, reasoning, receivedDelta,
                 live, resVars, polled, deleteCalls, lockTimedOut, msgVars>>

OtherSession == "ses_other"

\* every event is taken as one of this session
EventMatches_Any(evSession, sid) == TRUE

\* event.properties.part.sessionID === sessionId / info.sessionID === sessionId
EventMatches(evSession, sid) == evSession = sid

\* the loop body on a message.part.updated event that matches and carries a delta
DeliverDelta(delta, isReasoning) ==
  LET s == SendDelta(written, inBlockContent, inBlockReasoning, delta, isReasoning)
  IN /\ receivedDelta' = TRUE
     /\ idleArmed' = TRUE
     /\ live' = Append(live, [isReasoning |-> isReasoning, text |-> delta])
     /\ content' = IF isReasoning THEN content ELSE Accumulate(content, delta)
     /\ reasoning' = IF isReasoning THEN Accumulate(reasoning, delta) ELSE reasoning
     /\ written' = s.w
     /\ inBlockContent' = s.fc
     /\ inBlockReasoning' = s.fr

\* the loop body on a message.updated event that matches and has finish 'stop'
DeliverStop ==
  /\ collector' = "settled"
  /\ idleArmed' = FALSE
  /\ collected' = [tag |-> "ok", by |-> "stop", content |-> content,
                   reasoning |-> reasoning]

\* the backend produces a delta of this session: text is one symbol, a fresh
\* fragment or a marker.  A running subscription receives the
\* message.part.updated event and runs the loop body on it.
BackendEmit(isReasoning, marker) ==
  /\ UNCHANGED <<qvars, bvars, pvars, tvars>>
  /\ Prompted
  /\ msgStatus = "generating"
  /\ emitted < MaxDeltas
  /\ emitted' = emitted + 1
  /\ LET delta == << IF marker = 0 THEN emitted + 1 ELSE marker >>
     IN /\ msgContent' = IF isReasoning THEN msgContent ELSE msgContent \o delta
        /\ msgReasoning' = IF isReasoning THEN msgReasoning \o delta ELSE msgReasoning
        /\ IF collector = "running" /\ EventMatches(ThisSession, ThisSession)
           THEN DeliverDelta(delta, isReasoning)
           ELSE UNCHANGED <<receivedDelta, idleArmed, live, content, reasoning, written,
                            inBlockContent, inBlockReasoning>>
  /\ UNCHANGED <<reqVars, handler, sessionId, collector, collected, status, resEnded,
                 polled, deleteCalls, lockTimedOut, msgStatus>>

\* the backend completes the assistant message; a running subscription
\* receives message.updated with finish 'stop' and resolves
BackendFinish ==
  /\ UNCHANGED <<qvars, bvars, pvars, tvars>>
  /\ Prompted
  /\ msgStatus = "generating"
  /\ msgStatus' = "done"
  /\ IF collector = "running" /\ EventMatches(ThisSession, ThisSession)
     THEN DeliverStop
     ELSE UNCHANGED <<collector, idleArmed, collected>>
  /\ UNCHANGED <<reqVars, handler, sessionId, content, reasoning, receivedDelta, live,
                 resVars, polled, deleteCalls, lockTimedOut, msgContent, msgReasoning,
                 emitted>>

\* the event feed, which carries the events of every session of the backend,
\* delivers an event of another session to the running loop: a delta of a
\* text or reasoning part, or a message.updated with finish 'stop'
ForeignEvent(type, isReasoning) ==
  /\ UNCHANGED <<qvars, bvars, fvars, platform, tvars>>
  /\ collector = "running"
  /\ foreignFlip' = ~foreignFlip
  /\ IF type = "delta"
     THEN /\ IF EventMatches(OtherSession, ThisSession)
             THEN DeliverDelta(<<ForeignText>>, isReasoning)
             ELSE UNCHANGED <<receivedDelta, idleArmed, live, content, reasoning, written,
                              inBlockContent, inBlockReasoning>>
          /\ UNCHANGED <<collector, collected>>
     ELSE /\ IF EventMatches(OtherSession, ThisSession)
             THEN DeliverStop
             ELSE UNCHANGED <<collector, idleArmed, collected>>
          /\ UNCHANGED <<receivedDelta, live, content, reasoning, written,
                         inBlockContent, inBlockReasoning>>
  /\ UNCHANGED <<reqVars, handler, sessionId, status, resEnded, polled, deleteCalls,
                 lockTimedOut, msgVars>>

\* the backend records an error on the assistant message (info.error)
BackendFail ==
  /\ UNCHANGED <<qvars, bvars, pvars, tvars>>
  /\ Prompted
  /\ msgStatus = "generating"
  /\ msgStatus' = "error"
  /\ UNCHANGED <<reqVars, handler, sessionId, collVars, resVars, polled, deleteCalls,
                 lockTimedOut, msgContent, msgReasoning, emitted>>

\* firstDeltaTimer fires: if (finished || receivedDelta) return; else noData
FirstDeltaTimer ==
  /\ UNCHANGED <<qvars, bvars, pvars, tvars>>
  /\ collector = "running"
  /\ ~receivedDelta
  /\ collector' = "settled"
  /\ collected' = [tag |-> "noData", by |-> "firstDelta", content |-> <<>>,
                   reasoning |-> <<>>]
  /\ UNCHANGED <<reqVars, handler, sessionId, content, reasoning, receivedDelta,
                 idleArmed, live, resVars, polled, deleteCalls, lockTimedOut, msgVars>>

\* idleTimer fires; scheduleIdleTimer(), which only a delta calls, armed it
IdleTimer ==
  /\ UNCHANGED <<qvars, bvars, pvars, tvars>>
  /\ collector = "running"
  /\ idleArmed
  /\ collector' = "settled"
  /\ idleArmed' = FALSE
  /\ collected' = IdleResult(receivedDelta, content, reasoning)
  /\ UNCHANGED <<reqVars, handler, sessionId, content, reasoning, receivedDelta,
                 live, resVars, polled, deleteCalls, lockTimedOut, msgVars>>

\* await promptWithTimeout(...) returns; the non-stream branch goes on to poll
PromptOk ==
  /\ UNCHANGED <<qvars, bvars, pvars, tvars>>
  /\ handler = "prompting"
  /\ handler' = IF stream THEN "awaitCollect" ELSE "polling"
  /\ UNCHANGED <<reqVars, sessionId, collVars, resVars, polled, deleteCalls,
                 lockTimedOut, msgVars>>

\* await promptWithTimeout(...) throws: its timer won the race ("timeout") or
\* client.session.prompt rejected ("other")
PromptFail(kind) ==
  /\ UNCHANGED <<qvars, bvars, pvars, tvars>>
  /\ handler = "prompting"
  /\ UNCHANGED <<sessionId, polled>>
  /\ Throw(kind)
  /\ UNCHANGED <<reqVars, collVars, lockTimedOut, msgVars>>

\* collected = await safeCollect, then the code up to the next await
AfterCollect ==
  /\ UNCHANGED <<qvars, bvars, pvars, tvars>>
  /\ handler = "awaitCollect"
  /\ collected.tag # "none"
  /\ IF collected.tag \in {"error", "noData"}
     THEN /\ handler' = "polling"
          /\ UNCHANGED <<written, inBlockContent, inBlockReasoning, resEnded>>
     ELSE LET s == ResendCollected(written, inBlockContent, inBlockReasoning, collected)
          IN /\ written' = Finish(s.w)
             /\ inBlockContent' = s.fc
             /\ inBlockReasoning' = s.fr
             /\ resEnded' = TRUE
             /\ handler' = "ended"
  /\ UNCHANGED <<reqVars, sessionId, collVars, status, polled, deleteCalls,
                 lockTimedOut, msgVars>>

\* pollForAssistantResponse returns the newest assistant entry:
\* if (done || content || reasoning) return { content, reasoning, error }
\* and the branch that called it runs to its end
PollReturn ==
  /\ UNCHANGED <<qvars, bvars, pvars, tvars>>
  /\ handler = "polling"
  /\ msgStatus # "generating" \/ msgContent # <<>> \/ msgReasoning # <<>>
  /\ LET error == msgStatus = "error"
         errorOnly == error /\ msgContent = <<>> /\ msgReasoning = <<>>
         result == [tag |-> "returned", content |-> msgContent,
                    reasoning |-> msgReasoning, error |-> error]
     IN IF stream
        THEN LET s == IF errorOnly
                      THEN SendDelta(written, inBlockContent, inBlockReasoning,
                                     <<ProxyErrorText>>, FALSE)
                      ELSE SendBoth(written, inBlockContent, inBlockReasoning,
                                    msgReasoning, msgContent)
                 t == ResendCollected(s.w, s.fc, s.fr, collected)
             IN /\ written' = Finish(t.w)
                /\ inBlockContent' = t.fc
                /\ inBlockReasoning' = t.fr
                /\ resEnded' = TRUE
                /\ polled' = result
                /\ handler' = "ended"
                /\ UNCHANGED <<status, sessionId, deleteCalls>>
        ELSE IF HeadersSent
             THEN /\ UNCHANGED sessionId
                  /\ polled' = result
                  /\ Throw("other")
             ELSE /\ status' = IF errorOnly THEN 502 ELSE 200
                  /\ resEnded' = TRUE
                  /\ polled' = result
                  /\ handler' = "ended"
                  /\ UNCHANGED <<written, inBlockContent, inBlockReasoning, sessionId,
                                 deleteCalls>>
  /\ UNCHANGED <<reqVars, collVars, lockTimedOut, msgVars>>

\* pollForAssistantResponse throws: its loop ran out of time ("timeout") or
\* client.session.messages rejected ("other")
PollFail(kind) ==
  /\ UNCHANGED <<qvars, bvars, pvars, tvars>>
  /\ handler = "polling"
  /\ UNCHANGED <<sessionId, polled>>
  /\ Throw(kind)
  /\ UNCHANGED <<reqVars, collVars, lockTimedOut, msgVars>>

\* await client.session.delete(...) in the catch block settles; a rejection is
\* caught and logged
DeleteDone ==
  /\ UNCHANGED <<qvars, bvars, pvars, tvars>>
  /\ handler = "cleanup"
  /\ handler' = "failed"
  /\ UNCHANGED <<reqVars, sessionId, collVars, resVars, polled, deleteCalls,
                 lockTimedOut, msgVars>>

\* the serializer's deadline (REQUEST_TIMEOUT_MS + 20000) rejects the lock()
\* promise while the operation is still running: the outer catch answers 500
\* unless headers were sent
LockDeadline ==
  /\ UNCHANGED <<qvars, bvars, pvars, tvars>>
  /\ handler \notin {"received", "ended", "failed"}
  /\ ~lockTimedOut
  /\ lockTimedOut' = TRUE
  /\ IF ~HeadersSent
     THEN /\ status' = 500
          /\ resEnded' = TRUE
     ELSE UNCHANGED <<status, resEnded>>
  /\ UNCHANGED <<reqVars, handler, sessionId, collVars, inBlockContent,
                 inBlockReasoning, written, polled, deleteCalls, msgVars>>

\* the steps the gateway takes by itself: starting the operation, leaving
\* ensureBackend (its loops are bounded and each health probe has a timeout),
\* timers it armed and continuations of promises that are already settled
GatewayStep ==
  \/ \E s \in BOOLEAN : StartOperation(s)
  \/ EnsureOk
  \/ EnsureFail
  \/ CollectError("deadline")
  \/ FirstDeltaTimer
  \/ IdleTimer
  \/ PromptFail("timeout")
  \/ AfterCollect
  \/ LockDeadline

SNext ==
  \/ \E s \in BOOLEAN : StartOperation(s)
  \/ EnsureOk
  \/ EnsureFail
  \/ CreateOk
  \/ \E noId \in BOOLEAN : CreateFail(noId)
  \/ ToolIdsDone
  \/ SubscribeOk
  \/ \E cause \in {"subscribe", "deadline", "stream"} : CollectError(cause)
  \/ \E isReasoning \in BOOLEAN : \E marker \in {0, OpenMarker, CloseMarker} :
       BackendEmit(isReasoning, marker)
  \/ BackendFinish
  \/ BackendFail
  \/ FirstDeltaTimer
  \/ IdleTimer
  \/ PromptOk
  \/ \E kind \in {"timeout", "other"} : PromptFail(kind)
  \/ AfterCollect
  \/ PollReturn
  \/ \E kind \in {"timeout", "other"} : PollFail(kind)
  \/ DeleteDone
  \/ LockDeadline

------------------------------------------------------------------------------
------------------------------------------------------------------------------
\* The two tool-call filters on their own: the closure of createToolCallFilter
\* is fed a backend output delta by delta, stripFunctionCalls is applied to
\* the output as a whole.  Text is a sequence of symbols; markers are whole.

\* the symbols of a backend output: visible text, white space, the two markers
FilterAlphabet == {1, 2, Space, OpenMarker, CloseMarker}

\* the deltas the backend may produce: non-empty, at most MaxChunkLen symbols
RECURSIVE TextsUpTo(_, _)
TextsUpTo(alphabet, n) ==
  IF n = 0 THEN {<<>>}
  ELSE LET shorter == TextsUpTo(alphabet, n - 1)
       IN shorter \cup {Append(t, a) : t \in shorter, a \in alphabet}

FilterChunks == TextsUpTo(FilterAlphabet, MaxChunkLen) \ {<<>>}

\* text.replace(/<function_calls>[\s\S]*?<\/function_calls>/g, ''): every
\* opening marker that has a closing marker after it goes with everything up
\* to the first such closing marker; the scan resumes behind it
RECURSIVE ReplaceBlocks(_)
ReplaceBlocks(text) ==
  IF text = <<>> THEN <<>>
  ELSE IF Head(text) = OpenMarker /\ IndexOf(Tail(text), CloseMarker) # 0
       THEN ReplaceBlocks(SubSeq(Tail(text), IndexOf(Tail(text), CloseMarker) + 1,
                                 Len(Tail(text))))
       ELSE <<Head(text)>> \o ReplaceBlocks(Tail(text))

\* text.replace(/<\/?function_calls>/g, '')
ReplaceMarkers(text) == SelectSeq(text, LAMBDA c : c \notin {OpenMarker, CloseMarker})

\* String.prototype.trim
RECURSIVE TrimStart(_)
TrimStart(text) ==
  IF text # <<>> /\ Head(text) = Space THEN TrimStart(Tail(text)) ELSE text

RECURSIVE TrimEnd(_)
TrimEnd(text) ==
  IF text # <<>> /\ text[Len(text)] = Space
  THEN TrimEnd(SubSeq(text, 1, Len(text) - 1))
  ELSE text

Trim(text) == TrimEnd(TrimStart(text))

\* stripFunctionCalls(text)
StripFunctionCalls(disable, text) ==
  IF ~disable \/ text = <<>> THEN text
  ELSE Trim(ReplaceMarkers(ReplaceBlocks(text)))

\* the backend output grows by one delta: the streaming path passes the delta
\* through its filter closure and appends what comes out to what the client
\* has; the non-streaming path strips the output as a whole
FeedDelta(chunk) ==
  /\ UNCHANGED <<qvars, bvars, svars, foreignFlip, platform, promptVars, pollVars, authVars, tvars>>
  /\ Len(filterIn) + Len(chunk) <= MaxFed
  /\ LET f == ToolCallFilter(DISABLE_TOOLS, filterInBlock, chunk)
     IN /\ filterIn' = filterIn \o chunk
        /\ filterOut' = filterOut \o f.out
        /\ filterInBlock' = f.inBlock
        /\ filterDeltas' = filterDeltas + 1
        /\ stripOut' = StripFunctionCalls(DISABLE_TOOLS, filterIn \o chunk)

FilterNext == \E chunk \in FilterChunks : FeedDelta(chunk)

------------------------------------------------------------------------------
\* Input normalization on its own: buildPromptParts applied to the messages
\* of a request body.

\* the role of a message as sent ("" for none) and what toLowerCase() and
\* toUpperCase() make of it
RawRoles == {"", "system", "System", "User", "assistant"}

ToLowerCase(role) ==
  CASE role = "System" -> "system"
    [] role = "User"   -> "user"
    [] OTHER           -> role

ToUpperCase(role) ==
  CASE role = "system"    -> "SYSTEM"
    [] role = "user"      -> "USER"
    [] role = "assistant" -> "ASSISTANT"
    [] OTHER              -> role

\* the content of a message as sent: a string, an array of strings and
\* { text } objects, or null
RawContents ==
  {[kind |-> "string", text |-> <<>>],
   [kind |-> "string", text |-> <<1>>],
   [kind |-> "array", items |-> <<<<1>>, <<2>>>>],
   [kind |-> "null"]}

RawNames == {"", "bob"}

RawMessage == {[role |-> r, name |-> n, content |-> c] :
                 r \in RawRoles, n \in RawNames, c \in RawContents}

RECURSIVE MessageLists(_)
MessageLists(n) ==
  IF n = 0 THEN {<<>>}
  ELSE LET shorter == MessageLists(n - 1)
       IN shorter \cup {Append(l, m) : l \in shorter, m \in RawMessage}

\* Array.prototype.join('') of texts
RECURSIVE JoinTexts(_, _)
JoinTexts(texts, separator) ==
  IF texts = <<>> THEN <<>>
  ELSE IF Len(texts) = 1 THEN texts[1]
  ELSE texts[1] \o separator \o JoinTexts(Tail(texts), separator)

\* normalizeMessageContent(content)
NormalizeMessageContent(raw) ==
  CASE raw.kind = "string" -> raw.text
    [] raw.kind = "array"  -> JoinTexts(raw.items, <<>>)
    [] OTHER               -> <<>>

\* a message that is not a system message and has content becomes a part
IsPromptPart_AnyContent(role, text) == role # "system"

IsPromptPart(role, text) == role # "system" /\ text # <<>>

\* the forEach of buildPromptParts over the messages from the i-th on
RECURSIVE BuildLoop(_, _, _)
BuildLoop(rawMessages, i, acc) ==
  IF i > Len(rawMessages) THEN acc
  ELSE LET m == rawMessages[i]
           role == ToLowerCase(IF m.role = "" THEN "user" ELSE m.role)
           text == NormalizeMessageContent(m.content)
           nameSuffix == IF m.name = "" THEN <<>> ELSE <<"(", m.name, ")">>
       IN BuildLoop(rawMessages, i + 1,
            [parts |-> IF IsPromptPart(role, text)
                       THEN Append(acc.parts,
                                   [type       |-> "text",
                                    roleLabel  |-> ToUpperCase(role),
                                    nameSuffix |-> nameSuffix,
                                    content    |-> text])
                       ELSE acc.parts,
             systemChunks |-> IF role = "system" /\ text # <<>>
                              THEN Append(acc.systemChunks, text)
                              ELSE acc.systemChunks,
             userContents |-> IF IsPromptPart(role, text) /\ role = "user"
                              THEN Append(acc.userContents, text)
                              ELSE acc.userContents])

\* buildPromptParts(rawMessages); a part's text is the template
\* `${roleLabel}${nameSuffix}: ${content}`, kept as its three pieces
BuildPromptParts(rawMessages) ==
  LET acc == BuildLoop(rawMessages, 1,
                       [parts |-> <<>>, systemChunks |-> <<>>, userContents |-> <<>>])
  IN [parts       |-> acc.parts,
      system      |-> JoinTexts(acc.systemChunks, <<ParagraphBreak>>),
      lastUserMsg |-> IF acc.userContents = <<>> THEN <<>>
                      ELSE acc.userContents[Len(acc.userContents)]]

\* the body of the request arrives with these messages and is normalized
Normalize ==
  /\ UNCHANGED <<qvars, bvars, svars, foreignFlip, platform, filterVars, pollVars, authVars, tvars>>
  /\ promptMessages = <<>>
  /\ \E rawMessages \in MessageLists(MaxTurns) \ {<<>>} :
       /\ promptMessages' = rawMessages
       /\ prompt' = BuildPromptParts(rawMessages)

NormalizeNext == Normalize

------------------------------------------------------------------------------
\* The auth middleware on its own.  The configured key and the Authorization
\* header are texts of key characters and white space; 'Bearer ' is one symbol.

AuthMethods == {"GET", "POST", "OPTIONS"}
AuthPaths == {"/", "/health", "/v1/models", "/v1/chat/completions"}

\* the keys that may be configured; the empty text stands for no key
ApiKeys == TextsUpTo({KeyChar, Space}, MaxKeyLen)

\* the Authorization headers a request may carry: none, a key with the
\* 'Bearer ' prefix, a bare key
AuthHeaders ==
  {[present |-> FALSE, value |-> <<>>]}
    \cup {[present |-> TRUE, value |-> <<BearerPrefix>> \o k] : k \in ApiKeys}
    \cup {[present |-> TRUE, value |-> k] : k \in ApiKeys}

\* a header that starts with 'Bearer ' passes
HeaderMatches_AnyBearer(authHeader, key) ==
  authHeader.value # <<>> /\ Head(authHeader.value) = BearerPrefix

\* !(!authHeader || authHeader !== `Bearer ${API_KEY}`)
HeaderMatches(authHeader, key) ==
  /\ authHeader.present
  /\ authHeader.value # <<>>
  /\ authHeader.value = <<BearerPrefix>> \o key

\* the middleware: "next" when it calls next(), "401" when it answers
\* res.status(401) and the request goes no further
AuthMiddleware(method, path, key, authHeader) ==
  IF method = "OPTIONS" \/ path = "/health" \/ path = "/" THEN "next"
  ELSE IF key # <<>> /\ Trim(key) # <<>>
       THEN IF ~HeaderMatches(authHeader, key) THEN "401" ELSE "next"
       ELSE "next"

\* a request arrives at a gateway configured with the given key
AuthCheck ==
  /\ UNCHANGED <<qvars, bvars, svars, foreignFlip, platform, filterVars, promptVars, pollVars, tvars>>
  /\ authOutcome = "none"
  /\ \E method \in AuthMethods : \E path \in AuthPaths : \E key \in ApiKeys :
       \E authHeader \in AuthHeaders :
         /\ authRequest' = [method |-> method, path |-> path, key |-> key,
                            header |-> authHeader]
         /\ authOutcome' = AuthMiddleware(method, path, key, authHeader)

AuthNext == AuthCheck

------------------------------------------------------------------------------
\* The scan of the polling loop on its own: one fetched message list.

\* an entry of client.session.messages(): info.role, the text and reasoning
\* extractFromParts finds in its parts, and whether info.finish,
\* info.time.completed or info.error is set
PollEntries ==
  {[role |-> "user", content |-> <<1>>, reasoning |-> <<>>, done |-> TRUE]}
    \cup {[role |-> "assistant", content |-> c, reasoning |-> r, done |-> d] :
            c \in {<<>>, <<2>>, <<3>>}, r \in {<<>>, <<4>>}, d \in BOOLEAN}

RECURSIVE EntryLists(_)
EntryLists(n) ==
  IF n = 0 THEN {<<>>}
  ELSE LET shorter == EntryLists(n - 1)
       IN shorter \cup {Append(l, e) : l \in shorter, e \in PollEntries}

\* any assistant entry is returned
EntryReady_Always(entry) == TRUE

\* if (done || content || reasoning)
EntryReady(entry) == entry.done \/ entry.content # <<>> \/ entry.reasoning # <<>>

\* for (let i = messages.length - 1; i >= 0; i -= 1) { ... }: the iterations
\* from index i down; found is FALSE when the loop ends without a return
RECURSIVE PollScan(_, _)
PollScan(messages, i) ==
  IF i = 0 THEN [found |-> FALSE, content |-> <<>>, reasoning |-> <<>>]
  ELSE LET entry == messages[i]
       IN IF entry.role # "assistant" THEN PollScan(messages, i - 1)
          ELSE IF EntryReady(entry)
               THEN [found |-> TRUE, content |-> entry.content,
                     reasoning |-> entry.reasoning]
               ELSE PollScan(messages, i - 1)

\* one iteration of the polling loop, entered while the time is not up
\* (MaxPolls iterations fit into timeoutMs): it gets this message list and
\* scans it; it returns what the scan found, or sleeps and goes round
PollOnce ==
  /\ UNCHANGED <<qvars, bvars, svars, foreignFlip, platform, filterVars, promptVars, authVars, tvars>>
  /\ pollOutcome = "polling"
  /\ pollRounds < MaxPolls
  /\ \E messages \in EntryLists(MaxMessages) :
       /\ pollMessages' = messages
       /\ pollResult' = PollScan(messages, Len(messages))
       /\ IF PollScan(messages, Len(messages)).found
          THEN pollOutcome' = "returned" /\ UNCHANGED pollRounds
          ELSE pollRounds' = pollRounds + 1 /\ UNCHANGED pollOutcome

\* await client.session.messages(...) rejects: the loop ends with that error
PollRejected ==
  /\ UNCHANGED <<qvars, bvars, svars, foreignFlip, platform, filterVars, promptVars, authVars, tvars>>
  /\ pollOutcome = "polling"
  /\ pollRounds < MaxPolls
  /\ pollOutcome' = "rejected"
  /\ UNCHANGED <<pollMessages, pollResult, pollRounds>>

\* the while condition fails: throw new Error(`Request timeout after ${timeoutMs}ms`)
PollTimeout ==
  /\ UNCHANGED <<qvars, bvars, svars, foreignFlip, platform, filterVars, promptVars, authVars, tvars>>
  /\ pollOutcome = "polling"
  /\ pollRounds >= MaxPolls
  /\ pollOutcome' = "timeout"
  /\ UNCHANGED <<pollMessages, pollResult, pollRounds>>

PollNext == PollOnce \/ PollRejected \/ PollTimeout

------------------------------------------------------------------------------
\* getToolOverrides on its own.  The serializer runs one operation at a time,
\* so its calls do not overlap.  toolNow is Date.now() in units of half the
\* cache's lifetime.

\* the ids client.tool.ids() may list
ToolIds == {"bash", "edit"}

\* the value null, and the object that maps every id of a listing to false
NoOverrides == [isNull |-> TRUE, map |-> [id \in {} |-> FALSE]]
OverridesFor(ids) == [isNull |-> FALSE, map |-> [id \in ids |-> FALSE]]

\* the cache counts as fresh whatever its age
CacheFresh_Always(t, since) == TRUE

\* Date.now() - cachedToolAt < TOOL_IDS_CACHE_MS
CacheFresh(t, since) == t - since < TOOL_IDS_CACHE_MS

\* if (toolOverrides && Object.keys(toolOverrides).length > 0)
\*   promptParams.body.tools = toolOverrides
PromptHasTools(toolOverrides) ==
  ~toolOverrides.isNull /\ DOMAIN toolOverrides.map # {}

\* time passes
ToolTick ==
  /\ UNCHANGED <<qvars, bvars, svars, pvars, evars>>
  /\ toolNow < MaxToolTime
  /\ toolNow' = toolNow + 1
  /\ UNCHANGED <<cachedToolOverrides, cachedToolAt, toolCall, toolReturn, toolListed, promptTools>>

\* an operation calls getToolOverrides(): the code up to await client.tool.ids()
GetToolOverrides ==
  /\ UNCHANGED <<qvars, bvars, svars, pvars, evars>>
  /\ toolCall = "idle"
  /\ IF ~DISABLE_TOOLS
     THEN toolReturn' = NoOverrides /\ toolCall' = "returned"
     ELSE IF ~cachedToolOverrides.isNull /\ CacheFresh(toolNow, cachedToolAt)
          THEN toolReturn' = cachedToolOverrides /\ toolCall' = "returned"
          ELSE toolCall' = "fetching" /\ UNCHANGED toolReturn
  /\ UNCHANGED <<toolNow, cachedToolOverrides, cachedToolAt, toolListed, promptTools>>

\* await client.tool.ids() resolves with a listing of these ids (none when
\* what it resolved with holds no array)
ToolIdsResolved(ids) ==
  /\ UNCHANGED <<qvars, bvars, svars, pvars, evars>>
  /\ toolCall = "fetching"
  /\ toolListed' = ids
  /\ cachedToolOverrides' = OverridesFor(ids)
  /\ cachedToolAt' = toolNow
  /\ toolReturn' = OverridesFor(ids)
  /\ toolCall' = "returned"
  /\ UNCHANGED <<toolNow, promptTools>>

\* an empty map instead of null
ListingFailedReturn_EmptyMap == OverridesFor({})

\* catch (e) { ...; return null }
ListingFailedReturn == NoOverrides

\* await client.tool.ids() rejects
ToolIdsRejected ==
  /\ UNCHANGED <<qvars, bvars, svars, pvars, evars>>
  /\ toolCall = "fetching"
  /\ toolReturn' = ListingFailedReturn
  /\ toolCall' = "returned"
  /\ UNCHANGED <<toolNow, cachedToolOverrides, cachedToolAt, toolListed, promptTools>>

\* the operation goes on with what getToolOverrides returned: it puts the map
\* into the prompt when there is one that is not empty, and runs to its end
UseToolOverrides ==
  /\ UNCHANGED <<qvars, bvars, svars, pvars, evars>>
  /\ toolCall = "returned"
  /\ promptTools' = IF PromptHasTools(toolReturn) THEN "map" ELSE "absent"
  /\ toolCall' = "idle"
  /\ UNCHANGED <<toolNow, cachedToolOverrides, cachedToolAt, toolReturn, toolListed>>

ToolNext ==
  \/ ToolTick
  \/ GetToolOverrides
  \/ UseToolOverrides
  \/ \E ids \in SUBSET ToolIds : ToolIdsResolved(ids)
  \/ ToolIdsRejected

\* let cachedToolOverrides = null; let cachedToolAt = 0
TInit ==
  /\ toolNow = 0
  /\ cachedToolOverrides = NoOverrides
  /\ cachedToolAt = 0
  /\ toolCall = "idle"
  /\ toolReturn = NoOverrides
  /\ toolListed = {}
  /\ promptTools = "none"

------------------------------------------------------------------------------
\* resolveOpencodePath and the choice of the executable, on their own.  A
\* configured value is a string of these characters; a directory is a number,
\* and a file is a pair of a directory and a candidate name.

ConfiguredValues ==
  {<<KeyChar>>, <<Slash, KeyChar>>, <<KeyChar, Slash, KeyChar>>,
   <<KeyChar, Backslash, KeyChar>>, <<Space, Slash, KeyChar>>, <<Space>>}

Dirs == 1..MaxDirs

\* getOpencodeCandidateNames()
GetOpencodeCandidateNames(win) ==
  IF win THEN <<"opencode.cmd", "opencode.exe", "opencode.bat", "opencode">>
  ELSE <<"opencode">>

Range(list) == {list[i] : i \in DOMAIN list}

\* lists of directories without repetition (pushDir keeps repetitions out of
\* the known locations; a repeated PATH entry finds nothing its first
\* occurrence did not)
DirLists ==
  {list \in UNION {[1..n -> Dirs] : n \in 0..MaxDirs} :
     \A i, j \in DOMAIN list : i # j => list[i] # list[j]}

\* the known locations are pushed in one fixed order
ExtraDirLists ==
  {list \in DirLists : \A i, j \in DOMAIN list : i < j => list[i] < list[j]}

\* the candidate files that exist
FileSets(win) ==
  {files \in SUBSET (Dirs \X Range(GetOpencodeCandidateNames(win))) :
     Cardinality(files) <= MaxFiles}

NoPath == [kind |-> "null", text |-> <<>>, dir |-> 0, name |-> ""]
TextPath(kind, text) == [kind |-> kind, text |-> text, dir |-> 0, name |-> ""]
FilePath(dir, name) == [kind |-> "file", text |-> <<>>, dir |-> dir, name |-> name]

\* path.isAbsolute(input) || input.includes('/') || input.includes('\\')
LooksLikePath(win, input) ==
  \/ input # <<>> /\ (Head(input) = Slash \/ (win /\ Head(input) = Backslash))
  \/ \E i \in DOMAIN input : input[i] \in {Slash, Backslash}

\* the search takes the last directory that has a match
RECURSIVE FindExecutableInDirs_Last(_, _, _)
FindExecutableInDirs_Last(dirList, names, files) ==
  IF dirList = <<>> THEN NoPath
  ELSE LET rest == FindExecutableInDirs_Last(Tail(dirList), names, files)
           here == {i \in DOMAIN names : <<Head(dirList), names[i]>> \in files}
       IN IF rest # NoPath THEN rest
          ELSE IF here # {}
               THEN FilePath(Head(dirList), names[CHOOSE i \in here : \A j \in here : i <= j])
               ELSE NoPath

\* findExecutableInDirs(dirList, names)
RECURSIVE FindExecutableInDirs(_, _, _)
FindExecutableInDirs(dirList, names, files) ==
  IF dirList = <<>> THEN NoPath
  ELSE LET here == {i \in DOMAIN names : <<Head(dirList), names[i]>> \in files}
       IN IF here # {}
          THEN FilePath(Head(dirList), names[CHOOSE i \in here : \A j \in here : i <= j])
          ELSE FindExecutableInDirs(Tail(dirList), names, files)

\* resolveOpencodePath(requestedPath); onDisk says which of fs.existsSync(input)
\* and fs.existsSync(path.resolve(process.cwd(), input)) holds
ResolveOpencodePath(requestedPath, win, onDisk, pathDirs, extraDirs, files) ==
  LET input == Trim(requestedPath)
      names == GetOpencodeCandidateNames(win)
      fromPath == FindExecutableInDirs(pathDirs, names, files)
      fromExtras == FindExecutableInDirs(extraDirs, names, files)
  IN IF input # <<>> /\ LooksLikePath(win, input) /\ onDisk = "input"
     THEN [path |-> TextPath("input", input), source |-> "config"]
     ELSE IF input # <<>> /\ LooksLikePath(win, input) /\ onDisk = "resolved"
     THEN [path |-> TextPath("resolved", input), source |-> "config"]
     ELSE IF fromPath # NoPath THEN [path |-> fromPath, source |-> "PATH"]
     ELSE IF fromExtras # NoPath THEN [path |-> fromExtras, source |-> "known-locations"]
     ELSE [path |-> NoPath, source |-> "not-found"]

\* const opencodeBin = resolved.path || OPENCODE_PATH || OPENCODE_BASENAME
OpencodeBin(resolved, configured) ==
  IF resolved.path # NoPath THEN resolved.path
  ELSE IF configured # <<>> THEN TextPath("raw", configured)
  ELSE TextPath("raw", <<KeyChar>>)

NoResolveInput ==
  [configured |-> <<>>, win |-> FALSE, onDisk |-> "none", pathDirs |-> <<>>,
   extraDirs |-> <<>>, files |-> {}]

\* ensureBackend resolves the executable it is about to spawn
ResolveForSpawn ==
  /\ UNCHANGED <<qvars, bvars, svars, pvars, toolVars, validateVars, lateVars>>
  /\ opencodeBin = NoPath
  /\ \E configured \in ConfiguredValues : \E win \in BOOLEAN :
       \E onDisk \in {"none", "input", "resolved"} :
         \E pathDirs \in DirLists : \E extraDirs \in ExtraDirLists :
           \E files \in FileSets(win) :
             /\ resolveInput' = [configured |-> configured, win |-> win,
                                 onDisk |-> onDisk, pathDirs |-> pathDirs,
                                 extraDirs |-> extraDirs, files |-> files]
             /\ opencodeBin' = OpencodeBin(ResolveOpencodePath(configured, win, onDisk,
                                                               pathDirs, extraDirs, files),
                                           configured)

ResolveNext == ResolveForSpawn

RInit ==
  /\ resolveInput = NoResolveInput
  /\ opencodeBin = NoPath

------------------------------------------------------------------------------
\* The start of the operation with the request body looked at: the checks it
\* makes before await ensureBackend(config), and the calls that follow them.

\* req.body.messages: absent, something that is not an array, or an array
RequestBodies ==
  {[kind |-> "missing", messages |-> <<>>], [kind |-> "notArray", messages |-> <<>>]}
    \cup {[kind |-> "array", messages |-> m] : m \in MessageLists(MaxTurns)}

\* if (!messages || !Array.isArray(messages) || messages.length === 0)
MessagesMissing(b) == b.kind # "array" \/ b.messages = <<>>

\* a request without parts is let through
NoParts_Never(b) == FALSE

\* if (!parts.length)
NoParts(b) == BuildPromptParts(b.messages).parts = <<>>

\* the operation starts: the code from const { messages, model, stream } =
\* req.body to await ensureBackend(config); the two checks answer 400 and
\* return
ValidateRequest ==
  /\ UNCHANGED <<qvars, bvars, pvars, toolVars, resolveVars, lateVars>>
  /\ handler = "received"
  /\ \E s \in BOOLEAN : \E b \in RequestBodies :
       /\ body' = b
       /\ stream' = s
       /\ IF MessagesMissing(b) \/ NoParts(b)
          THEN /\ status' = 400
               /\ resEnded' = TRUE
               /\ handler' = "ended"
               /\ UNCHANGED <<inBlockContent, inBlockReasoning, written>>
          ELSE /\ handler' = "ensuring"
               /\ UNCHANGED resVars
  /\ UNCHANGED <<DISABLE_TOOLS, sessionId, collVars, polled, deleteCalls,
                 lockTimedOut, msgVars>>

ValidateNext ==
  \/ ValidateRequest
  \/ EnsureOk
  \/ EnsureFail
  \/ CreateOk
  \/ \E noId \in BOOLEAN : CreateFail(noId)
  \/ ToolIdsDone

VInit == body = [kind |-> "missing", messages |-> <<>>]

------------------------------------------------------------------------------
\* The event loop of collectFromEvents after a timer has settled the
\* collector.  The timers set finished, call controller.abort() and settle;
\* they do not leave the for-await loop, which runs on until the event stream
\* ends.  The loop is left at once by the stop event (break), by an exception
\* of the stream and when subscribe never gave a stream.

LoopStillOpen ==
  /\ collector = "settled"
  /\ collected.by \in {"firstDelta", "idle", "deadline"}
  /\ ~feedClosed

\* the feed delivers one more delta of this session to the loop, which is
\* still open: the loop body runs on it
LateDelta(isReasoning) ==
  /\ UNCHANGED <<qvars, bvars, pvars, toolVars, resolveVars, validateVars>>
  /\ LoopStillOpen
  /\ msgStatus = "generating"
  /\ emitted < MaxDeltas
  /\ emitted' = emitted + 1
  /\ msgContent' = IF isReasoning THEN msgContent ELSE msgContent \o <<emitted + 1>>
  /\ msgReasoning' = IF isReasoning THEN msgReasoning \o <<emitted + 1>> ELSE msgReasoning
  /\ IF EventMatches(ThisSession, ThisSession)
     THEN DeliverDelta(<<emitted + 1>>, isReasoning)
     ELSE UNCHANGED <<receivedDelta, idleArmed, live, content, reasoning, written,
                      inBlockContent, inBlockReasoning>>
  /\ UNCHANGED <<reqVars, handler, sessionId, collector, collected, status, resEnded,
                 polled, deleteCalls, lockTimedOut, msgStatus, feedClosed>>

\* the abort takes effect: the event stream ends and the loop is left
AbortTakesEffect ==
  /\ UNCHANGED <<qvars, bvars, svars, pvars, toolVars, resolveVars, validateVars>>
  /\ LoopStillOpen
  /\ feedClosed' = TRUE

LateNext ==
  \/ SNext
  \/ \E isReasoning \in BOOLEAN : LateDelta(isReasoning)
  \/ AbortTakesEffect

LInit == feedClosed = FALSE

------------------------------------------------------------------------------
\* nothing was fed yet
PInit ==
  /\ foreignFlip = FALSE
  /\ filterIn = <<>>
  /\ filterDeltas = 0
  /\ filterInBlock = FALSE
  /\ filterOut = <<>>
  /\ stripOut = <<>>
  /\ promptMessages = <<>>
  /\ prompt = BuildPromptParts(<<>>)
  /\ pollMessages = <<>>
  /\ pollResult = PollScan(<<>>, 0)
  /\ pollRounds = 0
  /\ pollOutcome = "polling"
  /\ authRequest = [method |-> "GET", path |-> "/", key |-> <<>>,
                    header |-> [present |-> FALSE, value |-> <<>>]]
  /\ authOutcome = "none"
  /\ platform = "linux"

Init == QInit /\ BInit /\ SInit /\ PInit /\ TInit /\ RInit /\ VInit /\ LInit
\* the stream model with the events of other sessions on the feed
ScopedNext ==
  \/ SNext
  \/ \E type \in {"delta", "stop"} : \E isReasoning \in BOOLEAN : ForeignEvent(type, isReasoning)

Next == QNext \/ BNext \/ StopNext \/ ScopedNext \/ FilterNext \/ NormalizeNext \/ AuthNext \/ PollNext \/ ToolNext
          \/ ResolveNext \/ ValidateNext \/ LateNext
Spec == Init /\ [][Next]_vars
SpecQueue == Init /\ [][QNext]_vars
SpecBackend == Init /\ [][BNext]_vars
SpecStream == Init /\ [][SNext]_vars
\* the gateway's own timers fire and its settled promises continue; nothing
\* obliges the backend to answer a call
SpecStreamFair == SpecStream /\ WF_vars(GatewayStep)
SpecScoped == Init /\ [][ScopedNext]_vars
SpecStop == Init /\ [][StopNext]_vars
SpecFilter == Init /\ [][FilterNext]_vars
SpecNormalize == Init /\ [][NormalizeNext]_vars
SpecAuth == Init /\ [][AuthNext]_vars
SpecPoll == Init /\ [][PollNext]_vars
SpecToolIds == Init /\ [][ToolNext]_vars
SpecResolve == Init /\ [][ResolveNext]_vars
SpecValidate == Init /\ [][ValidateNext]_vars
SpecLate == Init /\ [][LateNext]_vars

------------------------------------------------------------------------------
\* Claims about the streaming branch, checked under SpecStream

\* how many times fragment f occurs in the chunks written to the client
Occurrences(f) ==
  Cardinality({<<i, j>> \in (1..Len(written)) \X (1..(MaxDeltas + 1)) :
                 LET text == written[i].content \o written[i].reasoning_content
                 IN j <= Len(text) /\ text[j] = f})

\* C6 (the claim as stated): no fragment of content or reasoning the backend
\* produced is sent to the client twice, neither after the event-feed
\* collection completed nor after a fallback to polling.
C6_NoFragmentTwice == \A f \in 1..emitted : Occurrences(f) <= 1

\* the concatenation of one delta field over the chunks written
RECURSIVE TextOf(_, _)
TextOf(w, isReasoning) ==
  IF w = <<>> THEN <<>>
  ELSE (IF isReasoning THEN Head(w).reasoning_content ELSE Head(w).content)
       \o TextOf(Tail(w), isReasoning)

\* what the event-feed path forwards of a text the backend produced delta by
\* delta (one symbol each), every delta exactly once, through one filter closure
RECURSIVE EventFeedText(_, _)
EventFeedText(text, inBlock) ==
  IF text = <<>> THEN <<>>
  ELSE LET f == ToolCallFilter(DISABLE_TOOLS, inBlock, <<Head(text)>>)
       IN f.out \o EventFeedText(Tail(text), f.inBlock)

RECURSIVE LiveText(_, _)
LiveText(events, isReasoning) ==
  IF events = <<>> THEN <<>>
  ELSE (IF Head(events).isReasoning = isReasoning THEN Head(events).text ELSE <<>>)
       \o LiveText(Tail(events), isReasoning)

\* C12: the idle timer is armed only once a delta was received, and a
\* collection it settled resolved successfully with exactly the content and
\* the reasoning of the deltas received so far, never as an error (timeout)
\* and never as the no-event-data signal.
C12_IdleTimeoutIsSuccess ==
  /\ idleArmed => receivedDelta /\ live # <<>>
  /\ collected.by = "idle" =>
       /\ collected.tag = "ok"
       /\ collected.content = LiveText(live, FALSE)
       /\ collected.reasoning = LiveText(live, TRUE)
       /\ collected.content # <<>> \/ collected.reasoning # <<>>

\* C12 witness: after reasoning deltas only and no stop event the idle timer
\* settled the collection with empty content and that reasoning
C12_Witness ==
  /\ collected.by = "idle"
  /\ msgStatus = "generating"
  /\ collected.tag = "ok"
  /\ collected.content = <<>>
  /\ collected.reasoning = <<1>>

\* C13 (the claim as stated): once the overall deadline of the event-feed
\* collection fired, the request does not fall back to polling and does not
\* complete as a normal answer; it ends as a timeout failure.
C13_DeadlineIsHardFailure ==
  collected.by = "deadline" =>
    /\ handler # "polling"
    /\ polled.tag = "none"
    /\ handler # "ended"

RECURSIVE IsSubSeqOf(_, _)
IsSubSeqOf(a, b) ==
  IF a = <<>> THEN TRUE
  ELSE IF b = <<>> THEN FALSE
  ELSE IF Head(a) = Head(b) THEN IsSubSeqOf(Tail(a), Tail(b))
  ELSE IsSubSeqOf(a, Tail(b))

\* the received deltas as chunks, one per delta, in order of receipt
LiveChunks ==
  [i \in 1..Len(live) |->
     [content           |-> IF live[i].isReasoning THEN <<>> ELSE live[i].text,
      reasoning_content |-> IF live[i].isReasoning THEN live[i].text ELSE <<>>,
      finish_reason     |-> "null"]]

\* C15: the accumulators hold the received content deltas and the received
\* reasoning deltas in order of receipt; the chunks forwarded while the
\* handler has not yet completed the stream are the received deltas in order
\* of receipt, reasoning and content interleaved as received (all of them
\* without the tool-disable policy, those the filter lets through with it),
\* and they stay the head of what is written afterwards; every delta chunk
\* carries content or reasoning_content, never both and never neither.
C15_OrderPreserved ==
  /\ content = LiveText(live, FALSE)
  /\ reasoning = LiveText(live, TRUE)
  /\ \E k \in 0..Len(written) :
       /\ handler # "ended" => k = Len(written)
       /\ ~DISABLE_TOOLS => k = Len(live)
       /\ IsSubSeqOf(SubSeq(written, 1, k), LiveChunks)
       /\ ~DISABLE_TOOLS => SubSeq(written, 1, k) = LiveChunks
  /\ \A i \in 1..Len(written) :
       written[i].finish_reason = "null" =>
         (written[i].content = <<>>) # (written[i].reasoning_content = <<>>)

\* C15 witness: a reasoning delta, then a content delta were received and
\* forwarded in that order
C15_Witness ==
  /\ Len(live) = 2
  /\ live[1].isReasoning
  /\ ~live[2].isReasoning
  /\ Len(written) = 2
  /\ written[1].reasoning_content = live[1].text
  /\ written[2].content = live[2].text
  /\ handler # "ended"

\* C16 (the claim as stated): an operation that returned through its catch
\* block after chunks had been written to the response has terminated the
\* stream with the finish chunk and ended the response.
C16_FailedStreamIsClosed ==
  (handler = "failed" /\ written # <<>>) =>
    /\ resEnded
    /\ \E i \in 1..Len(written) : written[i] = FinishChunk

\* C17 (the claim as stated): the operation of a chat request that has reached
\* its first backend call eventually settles (returns normally or through its
\* catch block) whatever the backend does, even when a backend call never
\* responds.
C17_OperationSettles == (handler = "creating") ~> (handler \in {"ended", "failed"})

\* C18 (the claim as stated, for requests the serializer's deadline has not
\* answered): when the poll returned an assistant entry with an error and no
\* content and no reasoning, the request was answered with status 502, in
\* streaming and in non-streaming mode.
C18_ErrorOnlyIsBadGateway ==
  (polled.tag = "returned" /\ polled.error /\ polled.content = <<>>
   /\ polled.reasoning = <<>> /\ ~lockTimedOut) =>
    status = 502

\* C20 (the claim as stated): once the operation of a request that created a
\* session has settled, successfully or through its catch block, a delete call
\* was made for that session.
C20_SessionDeleted ==
  (Truthy(sessionId) /\ handler \in {"ended", "failed"}) => deleteCalls >= 1

\* is the symbol part of the text
Contains(text, sym) == \E i \in 1..Len(text) : text[i] = sym

\* C21: an event of another session that the feed delivers to the running
\* loop changes nothing of this request's collection: the accumulators, the
\* delta callback's output, the received-delta flag, the idle timer and the
\* state and result of the collection stay as they were; no text of another
\* session is ever accumulated, collected or written.
C21_SessionScoped ==
  [][/\ foreignFlip' # foreignFlip =>
          UNCHANGED <<content, reasoning, written, receivedDelta, idleArmed, live,
                      collector, collected, inBlockContent, inBlockReasoning>>
     /\ ~Contains(content', ForeignText)
     /\ ~Contains(reasoning', ForeignText)
     /\ ~Contains(collected'.content \o collected'.reasoning, ForeignText)
     /\ \A i \in 1..Len(written') :
          ~Contains(written'[i].content \o written'[i].reasoning_content, ForeignText)
    ]_vars

\* C21 witness: an event of another session arrived while the loop was
\* running with the idle timer armed, and the collection went on to settle
\* on this session's stop event with this session's deltas only
C21_Witness ==
  /\ foreignFlip
  /\ collected.by = "stop"
  /\ Len(live) = 2
  /\ collected.content # <<>>
  /\ collected.reasoning # <<>>

\* C25: when session creation ends without an id, the operation settles in
\* that very step with an error response and without a delete call; such an
\* operation has submitted no prompt, started no subscription, polled nothing
\* and never called delete.
C25_NoSessionNoWork ==
  /\ [][(handler = "creating" /\ sessionId' # ThisSession /\ handler' # "creating") =>
          /\ handler' = "failed"
          /\ resEnded' /\ status' = 500
          /\ deleteCalls' = deleteCalls]_vars
  /\ []((handler \in {"cleanup", "failed"} /\ sessionId # ThisSession) =>
          /\ msgStatus = "none"
          /\ collector = "off"
          /\ polled = NoPoll
          /\ deleteCalls = 0
          /\ written = <<>>
          /\ status = 500)

\* C25 witness: session creation returned without an id and the operation
\* has failed with status 500
C25_Witness ==
  /\ sessionId = "undefined"
  /\ handler = "failed"
  /\ status = 500
  /\ resEnded
  /\ ~lockTimedOut

\* C26 (the claim as stated): a step in which a timeout of the request
\* strikes before anything of the response was written (the prompt's timer,
\* the polling loop's timer or the serializer's deadline) answers 504.
C26_TimeoutIsGatewayTimeout ==
  [][(/\ ~HeadersSent
      /\ \/ PromptFail("timeout")
         \/ PollFail("timeout")
         \/ LockDeadline) => status' = 504]_vars

------------------------------------------------------------------------------
\* Claims about the tool-call filters, checked under SpecFilter

\* what is left of a text when every block is taken out: an opening marker
\* hides everything up to and including the next closing marker, or up to the
\* end of the text when no closing marker follows
RECURSIVE OutsideBlocks(_, _)
OutsideBlocks(text, inside) ==
  IF text = <<>> THEN <<>>
  ELSE IF inside
       THEN OutsideBlocks(Tail(text), Head(text) # CloseMarker)
       ELSE IF Head(text) = OpenMarker
            THEN OutsideBlocks(Tail(text), TRUE)
            ELSE <<Head(text)>> \o OutsideBlocks(Tail(text), FALSE)

\* the text with only the closed blocks taken out: an opening marker without a
\* closing marker after it stays, with everything behind it
RECURSIVE ClosedBlocksRemoved(_)
ClosedBlocksRemoved(text) ==
  IF text = <<>> THEN <<>>
  ELSE IF Head(text) = OpenMarker /\ Contains(Tail(text), CloseMarker)
       THEN LET rest == Tail(text)
                close == CHOOSE i \in 1..Len(rest) :
                           /\ rest[i] = CloseMarker
                           /\ \A j \in 1..(i - 1) : rest[j] # CloseMarker
            IN ClosedBlocksRemoved(SubSeq(rest, close + 1, Len(rest)))
       ELSE <<Head(text)>> \o ClosedBlocksRemoved(Tail(text))

\* a block of the text is still open at its end
EndsInsideBlock(text) == OutsideBlocks(text \o <<1>>, FALSE) = OutsideBlocks(text, FALSE)

\* C22 (the claim as stated): with the filter active, the concatenation of the
\* filter's outputs equals the input text with every block from an opening
\* marker through its closing marker removed.
C22_FilterRemovesBlocks ==
  DISABLE_TOOLS => filterOut = ClosedBlocksRemoved(filterIn)

\* C22 (amended): with the filter active, the concatenation of the filter's
\* outputs equals the input text with every block from an opening marker
\* through its closing marker removed and, when a block is still open at the
\* end of the input, with everything from that opening marker on removed too;
\* the closure's inBlock tells whether a block is still open.
C22_FilterRemovesBlocksAndOpenTail ==
  DISABLE_TOOLS =>
    /\ filterOut = OutsideBlocks(filterIn, FALSE)
    /\ filterInBlock = EndsInsideBlock(filterIn)
    /\ ~EndsInsideBlock(filterIn) => filterOut = ClosedBlocksRemoved(filterIn)

\* C22 witness: a block that was opened in one delta and closed in a later one
\* was removed, and the text before and behind it came out
C22_Witness ==
  /\ DISABLE_TOOLS
  /\ filterDeltas = 3
  /\ filterIn = <<1, OpenMarker, 2, CloseMarker>>
  /\ filterOut = <<1>>
  /\ ~filterInBlock

\* the text that may reach the client: what lies outside every block, without
\* the markers
Presentable(text) == ReplaceMarkers(OutsideBlocks(text, FALSE))

\* C23 (the claim as stated): with the tool-disable policy active, what the
\* client gets of a backend output, streamed through the filter closure or
\* stripped as a whole, is made only of text that lies outside every block:
\* no marker and nothing between an opening marker and its closing marker (or
\* the end of the output) is part of it.
C23_NoToolCallReachesClient ==
  DISABLE_TOOLS =>
    /\ IsSubSeqOf(filterOut, Presentable(filterIn))
    /\ IsSubSeqOf(stripOut, Presentable(filterIn))

------------------------------------------------------------------------------
\* Claims about input normalization, checked under SpecNormalize

\* the role a turn counts as, whatever the case it was sent in
TurnRole(m) ==
  CASE m.role \in {"system", "System"} -> "SYSTEM"
    [] m.role \in {"", "User"}         -> "USER"
    [] OTHER                           -> "ASSISTANT"

\* the text of a turn
TurnText(m) == NormalizeMessageContent(m.content)

\* the positions, in order, of the turns of the given kind that have text
TurnsWithText(isSystem) ==
  SelectSeq([i \in 1..Len(promptMessages) |-> i],
            LAMBDA i : /\ (TurnRole(promptMessages[i]) = "SYSTEM") = isSystem
                       /\ TurnText(promptMessages[i]) # <<>>)

\* C24: the parts list has exactly one part per non-system turn with non-empty
\* text, in the order of the turns, each labelled with the upper-cased role of
\* its turn and carrying its text; the merged system string is the non-empty
\* system texts in order, joined by blank lines; a single user turn with text
\* and no system turn gives one part and an empty system string.
C24_Normalization ==
  LET turns == TurnsWithText(FALSE)
      systems == TurnsWithText(TRUE)
  IN /\ Len(prompt.parts) = Len(turns)
     /\ \A k \in 1..Len(turns) :
          /\ prompt.parts[k].roleLabel = TurnRole(promptMessages[turns[k]])
          /\ prompt.parts[k].content = TurnText(promptMessages[turns[k]])
     /\ prompt.system = JoinTexts([k \in 1..Len(systems) |-> TurnText(promptMessages[systems[k]])],
                                  <<ParagraphBreak>>)
     /\ (Len(promptMessages) = 1 /\ Len(turns) = 1) =>
          Len(prompt.parts) = 1 /\ prompt.system = <<>>

\* C24 witness: a system turn sent in mixed case and a user turn were
\* normalized to one part labelled USER and a system string of one text
C24_Witness ==
  /\ Len(promptMessages) = 2
  /\ promptMessages[1].role = "System" /\ TurnText(promptMessages[1]) = <<1>>
  /\ promptMessages[2].role = "User" /\ TurnText(promptMessages[2]) = <<1, 2>>
  /\ Len(prompt.parts) = 1
  /\ prompt.parts[1].roleLabel = "USER"
  /\ prompt.system = <<1>>

------------------------------------------------------------------------------
\* Claims about the API-key gate, checked under SpecAuth

\* the configured key has a character that is not white space
NonBlank(key) == \E i \in 1..Len(key) : key[i] # Space

\* C29: with a non-blank key configured, a request that is neither an OPTIONS
\* request nor for /health or / and does not carry exactly 'Bearer ' followed
\* by the key is answered 401 and not passed on; with no key configured every
\* request is passed on.
C29_ApiKeyGate ==
  authOutcome # "none" =>
    LET r == authRequest
        exempt == r.method = "OPTIONS" \/ r.path \in {"/health", "/"}
        exact == r.header.present /\ r.header.value = <<BearerPrefix>> \o r.key
    IN /\ (NonBlank(r.key) /\ ~exempt /\ ~exact) => authOutcome = "401"
       /\ r.key = <<>> => authOutcome = "next"

\* C29 witness: with the key configured, a POST of a chat completion carrying
\* 'Bearer ' and another key was answered 401
C29_Witness ==
  /\ authOutcome = "401"
  /\ authRequest.method = "POST"
  /\ authRequest.path = "/v1/chat/completions"
  /\ authRequest.key = <<KeyChar>>
  /\ authRequest.header = [present |-> TRUE, value |-> <<BearerPrefix, KeyChar, KeyChar>>]

------------------------------------------------------------------------------
\* Claims about the polling scan, checked under SpecPoll

\* the position of the newest assistant entry of the list, 0 if there is none
NewestAssistant ==
  LET at == {i \in 1..Len(pollMessages) : pollMessages[i].role = "assistant"}
  IN IF at = {} THEN 0 ELSE CHOOSE i \in at : \A j \in at : j <= i

\* C30 (the claim as stated): what the scan returns is the content and the
\* reasoning of the newest assistant entry of the list, never those of an
\* older one.
C30_NewestAssistantOnly ==
  pollResult.found =>
    /\ NewestAssistant # 0
    /\ pollResult.content = pollMessages[NewestAssistant].content
    /\ pollResult.reasoning = pollMessages[NewestAssistant].reasoning

\* the assistant entries of the list that are done or carry text or reasoning
ReadyEntries ==
  {i \in 1..Len(pollMessages) :
     /\ pollMessages[i].role = "assistant"
     /\ \/ pollMessages[i].done
        \/ pollMessages[i].content # <<>>
        \/ pollMessages[i].reasoning # <<>>}

\* C31: polling returns only what an assistant entry that is done or has text
\* or reasoning carries, so an empty result comes from a done entry only;
\* while no such entry is in the list it goes round, and when the time is up
\* it ends with the timeout error and with nothing else.
C31_PollReturnsReadyEntry ==
  /\ [](pollOutcome = "returned" =>
          \E i \in ReadyEntries :
            /\ pollResult.content = pollMessages[i].content
            /\ pollResult.reasoning = pollMessages[i].reasoning
            /\ (pollResult.content = <<>> /\ pollResult.reasoning = <<>>) =>
                 pollMessages[i].done)
  /\ [](pollOutcome = "timeout" => pollRounds = MaxPolls /\ ReadyEntries = {})
  /\ [][/\ (pollOutcome = "polling" /\ ReadyEntries' = {}) => pollOutcome' # "returned"
        /\ (pollOutcome = "polling" /\ pollRounds = MaxPolls) => pollOutcome' = "timeout"]_vars

\* C31 witness: a round found only an assistant entry that was empty and not
\* done and went to sleep; a later round returned the empty result of an
\* entry that was done
C31_Witness ==
  /\ pollOutcome = "returned"
  /\ pollRounds = 1
  /\ pollResult.content = <<>> /\ pollResult.reasoning = <<>>
  /\ Len(pollMessages) = 2
  /\ pollMessages[2].role = "assistant" /\ pollMessages[2].done

------------------------------------------------------------------------------
\* Claims about the choice of the executable, checked under SpecResolve

\* the configured value, trimmed, looks like a path and exists
ConfiguredPathExists ==
  /\ LooksLikePath(resolveInput.win, Trim(resolveInput.configured))
  /\ resolveInput.onDisk # "none"

\* directory d holds a file with one of the candidate names
HoldsCandidate(d) ==
  \E n \in Range(GetOpencodeCandidateNames(resolveInput.win)) :
    <<d, n>> \in resolveInput.files

\* bin is the match of the first directory of the list that holds a candidate
IsFirstMatch(bin, list) ==
  LET names == GetOpencodeCandidateNames(resolveInput.win)
  IN /\ bin.kind = "file"
     /\ <<bin.dir, bin.name>> \in resolveInput.files
     /\ \E i \in DOMAIN list :
          /\ list[i] = bin.dir
          /\ \A j \in 1..(i - 1) : ~HoldsCandidate(list[j])
     /\ \E k \in DOMAIN names :
          /\ names[k] = bin.name
          /\ \A l \in 1..(k - 1) : <<bin.dir, names[l]>> \notin resolveInput.files

\* C34: the executable handed to spawn is the configured value when that
\* looks like a path and exists; otherwise the match of the first PATH
\* directory that holds a candidate name; otherwise the match of the first
\* known location that holds one; otherwise the configured string as given.
C34_ResolutionOrder ==
  opencodeBin # NoPath =>
    IF ConfiguredPathExists
    THEN /\ opencodeBin.kind \in {"input", "resolved"}
         /\ opencodeBin.text = Trim(resolveInput.configured)
    ELSE IF \E i \in DOMAIN resolveInput.pathDirs : HoldsCandidate(resolveInput.pathDirs[i])
    THEN IsFirstMatch(opencodeBin, resolveInput.pathDirs)
    ELSE IF \E i \in DOMAIN resolveInput.extraDirs : HoldsCandidate(resolveInput.extraDirs[i])
    THEN IsFirstMatch(opencodeBin, resolveInput.extraDirs)
    ELSE opencodeBin = TextPath("raw", resolveInput.configured)

\* C34 witness: the configured value is a bare name, the first PATH directory
\* holds nothing, the second holds a candidate and so does a known location
\* that comes first in its own list; the PATH match was chosen
C34_Witness ==
  /\ opencodeBin.kind = "file"
  /\ ~ConfiguredPathExists
  /\ Len(resolveInput.pathDirs) = 2
  /\ ~HoldsCandidate(resolveInput.pathDirs[1])
  /\ HoldsCandidate(resolveInput.pathDirs[2])
  /\ resolveInput.extraDirs # <<>>
  /\ resolveInput.extraDirs[1] = resolveInput.pathDirs[2]
  /\ opencodeBin.dir = resolveInput.pathDirs[2]

------------------------------------------------------------------------------
\* Claims about the event loop after the collector settled, checked under SpecLate

\* C38 (the claim as stated): once collectFromEvents has settled, the loop
\* receives no further delta, the per-delta callback is not called again and
\* the accumulated text and reasoning stay as they are, whatever the feed
\* delivers afterwards.
C38_SettledCollectorIsQuiet ==
  [][collector = "settled" =>
       UNCHANGED <<collector, live, content, reasoning, receivedDelta>>]_vars

------------------------------------------------------------------------------
\* Claims about the response of a chat request, checked under SpecStream

\* C39 (the claim as stated): once the response has been ended, by a JSON
\* answer or by the end of the stream, no other answer is given and nothing
\* is written to it, also when it was the serializer's deadline that
\* answered while the operation was still running.
C39_OneTerminalResponse ==
  [][resEnded => UNCHANGED <<resEnded, status, written>>]_vars

------------------------------------------------------------------------------
\* Claims about the checks of the request body, checked under SpecValidate

\* the body has no messages array, an empty one, or one without a turn that
\* is not a system turn and has text
FailsValidation ==
  \/ body.kind # "array"
  \/ body.messages = <<>>
  \/ ~\E i \in DOMAIN body.messages :
        TurnRole(body.messages[i]) # "SYSTEM" /\ TurnText(body.messages[i]) # <<>>

\* C37: an operation started for a request that fails validation has answered
\* 400 and returned (which settles its turn in the serializer) with no session
\* created, no prompt submitted and nothing else done; only a request that
\* passes goes on to ensureBackend().
C37_InvalidRequestRejectedEarly ==
  /\ []((handler # "received" /\ FailsValidation) =>
          /\ handler = "ended"
          /\ status = 400 /\ resEnded /\ written = <<>>
          /\ sessionId = "null"
          /\ msgStatus = "none"
          /\ collector = "off"
          /\ deleteCalls = 0
          /\ ~lockTimedOut)
  /\ []((handler # "received" /\ ~FailsValidation) => status # 400)
  /\ [][(handler = "received" /\ handler' # "received" /\ ~FailsValidation')
           => handler' = "ensuring"]_vars

\* C37 witness: a body whose only turn with text is a system turn was
\* answered 400 and the operation has returned
C37_Witness ==
  /\ body.kind = "array"
  /\ Len(body.messages) = 2
  /\ TurnRole(body.messages[1]) = "SYSTEM" /\ TurnText(body.messages[1]) # <<>>
  /\ TurnRole(body.messages[2]) = "USER" /\ TurnText(body.messages[2]) = <<>>
  /\ status = 400 /\ handler = "ended"


\* a listing is cached and its 5-minute window has not run out
InsideWindow ==
  ~cachedToolOverrides.isNull /\ toolNow - cachedToolAt < TOOL_IDS_CACHE_MS

\* C33: with the tool-disable policy active, the cached map is the last
\* listing with every id mapped to false; a call inside the window of a
\* cached listing returns that map and fetches nothing, no fetch is started
\* inside the window, and a call after the window has run out fetches again.
C33_ToolIdCache ==
  /\ []((DISABLE_TOOLS /\ ~cachedToolOverrides.isNull) =>
          /\ DOMAIN cachedToolOverrides.map = toolListed
          /\ \A id \in toolListed : cachedToolOverrides.map[id] = FALSE)
  /\ [][DISABLE_TOOLS =>
          /\ (GetToolOverrides /\ InsideWindow) =>
               /\ toolCall' = "returned"
               /\ toolReturn' = cachedToolOverrides
               /\ UNCHANGED <<cachedToolOverrides, cachedToolAt>>
          /\ (toolCall' = "fetching" /\ toolCall = "idle") => ~InsideWindow
          /\ (GetToolOverrides /\ ~InsideWindow) => toolCall' = "fetching"]_vars

\* C33 witness: a listing of two ids was cached, a call inside its window got
\* the cached map, and after the window a call is fetching again
C33_Witness ==
  /\ DISABLE_TOOLS
  /\ toolListed = ToolIds
  /\ cachedToolOverrides = OverridesFor(ToolIds)
  /\ toolReturn = OverridesFor(ToolIds)
  /\ promptTools = "map"
  /\ toolNow - cachedToolAt >= TOOL_IDS_CACHE_MS
  /\ toolCall = "fetching"

\* C40: a fetch of the listing that fails makes getToolOverrides return null
\* to the operation, which then submits the prompt without a tools map; the
\* cache is as it was, and the next call fetches again.
C40_FailedListingIsHarmless ==
  [][DISABLE_TOOLS =>
       /\ ToolIdsRejected =>
            /\ toolCall' = "returned"
            /\ toolReturn'.isNull
            /\ UNCHANGED <<cachedToolOverrides, cachedToolAt>>
            /\ ~InsideWindow'
       /\ (toolCall = "returned" /\ toolCall' = "idle" /\ toolReturn.isNull) =>
            promptTools' = "absent"
       /\ (toolCall = "idle" /\ toolCall' # "idle" /\ toolReturn.isNull) =>
            toolCall' = "fetching"]_vars

\* C40 witness: with an expired listing in the cache a fetch failed, null was
\* returned, and the next call is fetching again
C40_Witness ==
  /\ DISABLE_TOOLS
  /\ cachedToolOverrides = OverridesFor({"bash"})
  /\ toolReturn = NoOverrides
  /\ promptTools = "absent"
  /\ toolCall = "fetching"

------------------------------------------------------------------------------
\* Claims about the backend supervisor, checked under SpecBackend

Starters == {c \in Callers : pc[c] = "starting"}

\* C3 (the claim as stated): at most one start attempt is in flight at a time;
\* a caller that overlaps an in-progress start never spawns a second process.
C3_SingleFlightStart == Cardinality(Starters) <= 1

\* C4: a call of ensureBackend() resolves only in a step in which its health
\* probe succeeded (cheap path, waiter path or starter path).
C4_ResolveOnlyWhenProbed ==
  [][\A c \in Callers : (pc[c] # "resolved" /\ pc'[c] = "resolved") => healthy]_vars

\* C4 witness: a call that went through the start sequence has resolved, and a
\* call whose probes all failed has been rejected.
C4_Witness ==
  /\ pc["request"] = "resolved" /\ via["request"] = "starter"
  /\ pc["warmup"] = "rejected"

\* C5: when the probe of a caller on the cheap path succeeds, the call returns
\* and isStarting, the process handle, the isolated root, the directories and
\* the spawned and signalled processes are all left as they were.
C5_CheapPathFrame ==
  [][\A c \in Callers :
       (pc[c] = "probe" /\ pc'[c] # "probe" /\ healthy)
         => /\ pc'[c] = "resolved"
            /\ UNCHANGED <<isStarting, process, jailRoot, dirs, spawned, signalled>>]_vars

\* C5 witness: after a start succeeded (a process is recorded, no start is in
\* progress, the backend is healthy) a later call has returned on the cheap path.
C5_Witness ==
  /\ pc["warmup"] = "resolved" /\ via["warmup"] = "starter"
  /\ pc["request"] = "resolved" /\ via["request"] = "cheap"
  /\ process # 0 /\ spawned = 1 /\ ~isStarting /\ healthy

\* C19: when a start attempt runs out of health probes, isStarting is cleared
\* and the call is rejected while every other call stays where it is; a call
\* made while isStarting is clear goes to the health probe instead of the
\* waiter loop, and when that probe fails the call performs the start sequence
\* again: it sets isStarting, signals the recorded process handle, removes the
\* recorded isolated root, records a new one and, unless creating the
\* directories throws, spawns a new process and polls its health.
C19_StartTimeoutRecoverable ==
  [][\A c \in Callers :
       /\ (pc[c] = "starting" /\ pc'[c] = "rejected") =>
            /\ ~isStarting'
            /\ \A d \in Callers \ {c} : pc'[d] = pc[d]
       /\ (pc[c] = "idle" /\ pc'[c] # "idle" /\ ~isStarting) => pc'[c] = "probe"
       /\ (pc[c] = "probe" /\ pc'[c] # "probe" /\ ~healthy) =>
            /\ isStarting'
            /\ process # 0 => process \in signalled'
            /\ (jailRoot # 0 /\ jailRoot' # jailRoot) => jailRoot \notin dirs'
            /\ jailRoot' # 0
            /\ pc'[c] \in {"starting", "rejected"}
            /\ pc'[c] = "starting" =>
                 /\ spawned' = spawned + 1
                 /\ process' = spawned'
                 /\ process' \notin signalled'
                 /\ jailRoot' \in dirs'
    ]_vars

\* C19 witness: the warm-up call was rejected because its start loop ran out,
\* and the request's call has since signalled the stale process and spawned a
\* second one
C19_Witness ==
  /\ pc["warmup"] = "rejected" /\ via["warmup"] = "startTimeout"
  /\ pc["request"] = "starting" /\ via["request"] = "starter"
  /\ isStarting
  /\ spawned = 2 /\ process = 2 /\ 1 \in signalled

\* C27 (the claim as stated): a start attempt that spawns a process has
\* removed the previously recorded isolated root, has recorded and created a
\* new one for the process to run in, and that root is not the root the
\* previous incarnation ran in.
C27_FreshRootPerIncarnation ==
  [][spawned' = spawned + 1 =>
       /\ jailRoot' \in dirs'
       /\ dirs' \subseteq {jailRoot'}
       /\ (spawned >= 1 /\ jailRoot \in dirs) => jailRoot' # jailRoot]_vars

\* C35 (the claim as stated): isStarting is set only while some call of
\* ensureBackend() is in a start attempt; once a start attempt has ended, by
\* success, by running out of probes or by an exception from creating the
\* directories or spawning, isStarting is clear.
C35_IsStartingOnlyDuringStart ==
  isStarting => \E c \in Callers : pc[c] = "starting"

\* the spawned processes kill() was not called on
Unsignalled == (1..spawned) \ signalled

\* C36: a step that spawns a process has signalled the process recorded
\* before it, and the recorded process is the one spawned last; so at most
\* one spawned process has not been signalled, and it is the recorded one.
C36_AtMostOneUnsignalled ==
  /\ [](Cardinality(Unsignalled) <= 1 /\ Unsignalled \subseteq {process}
          /\ process = spawned)
  /\ [][spawned' = spawned + 1 =>
          /\ process # 0 => process \in signalled'
          /\ process' = spawned']_vars

\* C36 witness: two calls went through the start sequence one after the
\* other's probe; the first's process was signalled when the second spawned
C36_Witness ==
  /\ pc["warmup"] = "starting" /\ pc["request"] = "starting"
  /\ spawned = 2 /\ process = 2
  /\ signalled = {1}

------------------------------------------------------------------------------
\* Claims about stopping the backend, checked under SpecStop

\* C28 (the claim as stated): when killBackend() has run, the recorded
\* process has been signalled and the recorded isolated root is no longer on
\* disk, on every platform.
C28_KillRemovesRoot ==
  [][KillBackend =>
       /\ process # 0 => process \in signalled'
       /\ jailRoot # 0 => jailRoot \notin dirs']_vars

\* C32: a call of ensureBackend() that is in a polling loop has made fewer
\* than 120 probes there on the waiter path and fewer than 60 on the starter
\* path (after its one probe before the start); a step of the call in a
\* loop that does not end the call is counted, and the probe before the start
\* ends the call or starts the loop.
C32_BoundedProbes ==
  /\ [](\A c \in Callers :
          /\ pc[c] = "waiting" => iter[c] < 120
          /\ pc[c] = "starting" => iter[c] < 60
          /\ pc[c] \notin {"waiting", "starting"} => iter[c] = 0)
  /\ [][\A c \in Callers :
          /\ (pc[c] \in {"waiting", "starting"} /\ pc'[c] = pc[c] /\ healthy' = healthy
                /\ \A d \in Callers \ {c} : pc'[d] = pc[d] /\ iter'[d] = iter[d])
               => iter'[c] = iter[c] + 1
          /\ (pc[c] = "probe" /\ pc'[c] # "probe")
               => pc'[c] \in {"resolved", "rejected", "starting"}]_vars

\* C32 witness: a waiter has made 119 failed probes and a starter 59, each
\* with one probe left
C32_Witness ==
  /\ pc["request"] = "waiting" /\ iter["request"] = 119
  /\ pc["warmup"] = "starting" /\ iter["warmup"] = 59

------------------------------------------------------------------------------
\* Claims about the request serializer, checked under SpecQueue

Running == {t \in TaskIds : opState[t] = "running"}
InQueue(t) == Cardinality({i \in 1..Len(queue) : queue[i].task = t})

\* C1: at any moment at most one admitted operation has been started and has
\* not yet settled.
C1_MutualExclusion == Cardinality(Running) <= 1

\* C1 witness: an operation is still running after its deadline fired, and a
\* later task is waiting in the queue.
C1_Witness ==
  \E t \in TaskIds : opState[t] = "running" /\ promise[t] = "timeout" /\ queue # <<>>

\* C2: operations begin executing in the order lock() was called: the k-th
\* operation started is the k-th arrival, and the queue holds the arrivals not
\* yet started, in arrival order.
C2_FifoOrder ==
  /\ \A k \in 1..Len(started) : started[k] = k
  /\ \A i \in 1..Len(queue) : queue[i].task = Len(started) + i
  /\ Len(started) + Len(queue) = nLocked

\* C2 witness: two tasks waited in the queue together (the later one arrived
\* before the earlier one started) and both have been started.
C2_Witness ==
  \E u \in 2..(MaxTasks - 1) :
    /\ startedAt[u + 1] # None
    /\ arrivedAt[u + 1] < startedAt[u]

\* C7 (the claim as stated): when the deadline of the running task fires before
\* its operation settled and the next task was already queued, that next task
\* begins executing within one cooldown interval of the deadline firing.
C7_DeadlineReleasesSlot ==
  \A t \in 1..(MaxTasks - 1) :
    (firedAt[t] # None /\ arrivedAt[t + 1] # None /\ arrivedAt[t + 1] <= firedAt[t])
      => \/ now <= firedAt[t] + Cooldown
         \/ (startedAt[t + 1] # None /\ startedAt[t + 1] <= firedAt[t] + Cooldown)

\* C8 (the claim as stated): after a task settles, no task is started until the
\* cooldown delay has elapsed, also for a lock() call that arrives during the
\* cooldown.
C8_CooldownRespected ==
  \A t, u \in TaskIds :
    (t < u /\ opSettledAt[t] # None /\ startedAt[u] # None)
      => startedAt[u] >= opSettledAt[t] + Cooldown

PromiseSettled(t) == promise[t] \in {"resolved", "rejected", "timeout"}

\* C9: the promise lock() returned settles at most once; with the operation's
\* own outcome when the operation settled before the deadline fired, with the
\* timeout rejection otherwise; an outcome arriving after the deadline fired
\* does not change it.
C9_SettlesOnce ==
  /\ [](\A t \in TaskIds :
          /\ promise[t] = "resolved" => (opOutcome[t] = "value" /\ firedAt[t] = None)
          /\ promise[t] = "rejected" => (opOutcome[t] = "error" /\ firedAt[t] = None)
          /\ promise[t] = "timeout" <=> firedAt[t] # None
          /\ (opState[t] = "settled" /\ firedAt[t] = None) => PromiseSettled(t))
  /\ [][\A t \in TaskIds : PromiseSettled(t) => promise'[t] = promise[t]]_vars

\* C9 witness: an operation settled after its deadline had fired; the promise
\* still carries the timeout rejection.
C9_Witness ==
  \E t \in TaskIds :
    opState[t] = "settled" /\ firedAt[t] # None /\ promise[t] = "timeout"

\* C10: every task enqueued by lock() is either still in the queue, once and
\* not yet invoked, or out of the queue and invoked exactly once; and a
\* non-empty queue with a free slot always has a processQueue wake-up pending.
C10_InvokedExactlyOnce ==
  /\ \A t \in TaskIds :
       IF t <= nLocked
       THEN \/ (InQueue(t) = 1 /\ invoked[t] = 0)
            \/ (InQueue(t) = 0 /\ invoked[t] = 1)
       ELSE InQueue(t) = 0 /\ invoked[t] = 0
  /\ (~isProcessing /\ queue # <<>>) => wakeups # <<>>

\* C10 witness: two processQueue wake-ups are pending at once while a task
\* waits in the queue and another has already been invoked.
C10_Witness ==
  /\ Len(wakeups) >= 2
  /\ queue # <<>>
  /\ \E t \in TaskIds : invoked[t] = 1

====
